---------------------------- MODULE Spec2Model ----------------------------
(***************************************************************************)
(* Model of the Feishu table synchronisation workflow of douyin-sync-skill *)
(* (scripts/sync.py, cmd_sync) together with the parts of the video-data   *)
(* client (scripts/douyin_api.py) and of the parser                        *)
(* (scripts/douyin_parser.py) that decide what is written back.  Three     *)
(* calls of the client are also followed step by step, each under its own  *)
(* specification: _extract_aweme_id (SpecResolve), fetch_video (SpecFetch, *)
(* SpecStats) and fetch_videos_batch (SpecBatch).  SpecCommand runs sync   *)
(* and query with every configuration against backends that may fail,     *)
(* SpecRerun runs sync twice over the same table, and SpecBrands follows   *)
(* the brand registry of scripts/yuntu_scraper.py under two invocations.   *)
(*                                                                         *)
(* Text is modelled as a sequence of tokens.  A token is one of            *)
(*   " "   a whitespace character,                                         *)
(*   "x"   a character that is neither whitespace nor a digit,             *)
(*   IdA, IdB, IdC         a run of 19 decimal digits,                     *)
(*   ShortDigits, OtherDigits  shorter runs of digits,                     *)
(*   UrlHost, VideoPath    the pieces of a canonical video URL,            *)
(*   ShortHost, SharePath  the marks of a short link and of a share link,  *)
(*   "T"   ordinary title text,  Sentinel, WarnMark  the title markers.    *)
(* The source's Chinese literals cannot be written in a TLA+ string; each  *)
(* ASCII stand-in names its literal in the comment of its definition.      *)
(***************************************************************************)
EXTENDS Integers, Sequences, FiniteSets, TLC

VARIABLES
    pc,               \* position of cmd_sync
    force,            \* args.force
    table,            \* the rows the spreadsheet backend holds
    records,          \* cmd_sync: records (result of list_records)
    video_groups,     \* cmd_sync: video_groups, an insertion-ordered dict
    videos_to_fetch,  \* cmd_sync: videos_to_fetch
    skipped,          \* cmd_sync: skipped
    batch_results,    \* cmd_sync: batch_results (fetch_videos_batch's result)
    parsed_results,   \* cmd_sync: parsed_results
    updates,          \* cmd_sync: updates
    sent,             \* the payload update_records posted to the backend
    result,           \* cmd_sync: the summary printed at the end
    proc,             \* cmd_sync: configuration, backend calls, exit code
    resolver,         \* one call of DouyinAPI._extract_aweme_id
    fetcher,          \* one call of DouyinAPI.fetch_video
    batch,            \* one call of DouyinAPI.fetch_videos_batch
    query,            \* one run of cmd_query
    brands            \* the brand registry file and the runs of add_brand

\* The variables of cmd_sync, and those of the calls of the client that are
\* followed step by step.
syncvars == <<pc, force, table, records, video_groups, videos_to_fetch,
              skipped, batch_results, parsed_results, updates, sent, result,
              proc>>
apivars == <<resolver, fetcher, batch>>
cmdvars == <<query, brands>>

vars == <<pc, force, table, records, video_groups, videos_to_fetch, skipped,
          batch_results, parsed_results, updates, sent, result, proc,
          resolver, fetcher, batch, query, brands>>

-----------------------------------------------------------------------------
(* Bounds of the model.                                                    *)

\* The largest number of rows of the table.
MaxRows == 3

-----------------------------------------------------------------------------
(* Tokens and literals.                                                    *)

\* Two 19-digit video identifiers (the first is the example of sync.py:13).
IdA == "7567352731951164082"
IdB == "7567352731951164083"
IdC == "7567352731951164084"
Ids19 == {IdA, IdB, IdC}

\* "https://www.douyin.com" and "/video/" (douyin_api.py:209, 347, 386).
UrlHost == "https://www.douyin.com"
VideoPath == "/video/"
\* "https://v.douyin.com/", the host of a short link, and "/share/", the
\* path that follows the host in a share link (douyin_api.py:32).
ShortHost == "https://v.douyin.com/"
SharePath == "/share/"
\* The tokens that begin with "http://" or "https://" (douyin_api.py:50).
UrlStarts == {UrlHost, ShortHost}
\* Two runs of fewer than 19 digits.
ShortDigits == "123"
OtherDigits == "45"

\* The removed-video title, the literal 视频已下架 (sync.py:194, 240).
Sentinel == "<video removed>"
\* The warning prefix, the literal ⚠️ (sync.py:194).
WarnMark == "<warning sign>"
\* The description of the 404 record, 视频不存在或已下架 (douyin_api.py:150).
NotFoundDesc == "<video missing or removed>"

\* Field names of the table: 视频ID, 标题描述, 点赞数, 播放量 and the other
\* columns parse_video writes (douyin_parser.py:50-99).
FVideoId == "video_id"
FTitle == "title"
FLikes == "likes"
FPlays == "plays"
ParsedFieldNames ==
    { FVideoId, "video_link", FTitle, "author_nickname", "author_id",
      "publish_time", "duration_seconds", "collected_at",
      FPlays, FLikes, "comments", "shares", "collects",
      "data_source", "hashtags",
      "has_product", "product_title", "product_price", "product_sales",
      "product_link" }

-----------------------------------------------------------------------------
(* Python values of a text-like table field: None (or the key missing), a  *)
(* str, an empty list, a list whose first item is a str, a list whose      *)
(* first item is a rich-text dict with a 'text' entry.                     *)

NoneV == [kind |-> "none", text |-> <<>>]
StrV(s) == [kind |-> "str", text |-> s]
EmptyListV == [kind |-> "list_empty", text |-> <<>>]
ListStrV(s) == [kind |-> "list_str", text |-> s]
ListDictV(s) == [kind |-> "list_dict", text |-> s]

\* Python truthiness of such a value.
Truthy(v) ==
    CASE v.kind = "none" -> FALSE
      [] v.kind = "str" -> v.text # <<>>
      [] v.kind = "list_empty" -> FALSE
      [] OTHER -> TRUE

\* A numeric field: absent (None) or a number.
NoCount == [present |-> FALSE, n |-> 0]
Count(k) == [present |-> TRUE, n |-> k]
\* bool(fields.get(...)) of a numeric field.
CountTruthy(c) == c.present /\ c.n # 0

RECURSIVE LStrip(_)
LStrip(s) == IF s # <<>> /\ Head(s) = " " THEN LStrip(Tail(s)) ELSE s

RECURSIVE RStrip(_)
RStrip(s) ==
    IF s # <<>> /\ s[Len(s)] = " " THEN RStrip(SubSeq(s, 1, Len(s) - 1)) ELSE s

\* str.strip()
Strip(s) == RStrip(LStrip(s))


-----------------------------------------------------------------------------
(* scripts/sync.py: extract_video_id and the ingestion of the title field. *)

\* Faulty variant of extract_video_id: the text is not stripped.
extract_video_id_NoStrip(raw_value) ==
    IF ~Truthy(raw_value) THEN <<>>
    ELSE raw_value.text

\* extract_video_id(raw_value): the stripped text of the field, "" when the
\* value is falsy.
extract_video_id(raw_value) ==
    IF ~Truthy(raw_value) THEN <<>>
    ELSE Strip(raw_value.text)

\* The title text cmd_sync reads from fields.get("标题描述", "") (desc_value).
DescValue(desc_raw) ==
    CASE desc_raw.kind = "list_dict" -> desc_raw.text
      [] desc_raw.kind = "list_str" -> desc_raw.text
      [] desc_raw.kind = "list_empty" -> <<>>
      [] OTHER -> IF Truthy(desc_raw) THEN desc_raw.text ELSE <<>>

\* Faulty variant of IsErrorDesc: the removed-video title is not an error.
IsErrorDesc_IgnoresSentinel(desc_value) ==
    \/ desc_value = <<>>
    \/ (desc_value # <<>> /\ Head(desc_value) = WarnMark)

\* desc_value in ["视频已下架", ""] or desc_value.startswith("⚠️")
IsErrorDesc(desc_value) ==
    \/ desc_value = <<Sentinel>>
    \/ desc_value = <<>>
    \/ (desc_value # <<>> /\ Head(desc_value) = WarnMark)

\* is_complete of a master row's fields.
IsComplete(fields) ==
    LET has_likes == CountTruthy(fields.likes)
        has_plays == CountTruthy(fields.plays)
        desc_value == DescValue(fields.title)
        is_error == IsErrorDesc(desc_value)
        has_valid_desc == desc_value # <<>> /\ ~is_error
    IN  has_valid_desc /\ (has_likes \/ has_plays)

-----------------------------------------------------------------------------
(* scripts/douyin_api.py: DouyinAPI._extract_aweme_id.                     *)

\* The value returned when no identifier is found (Python None).
Unresolved == "None"

\* Tokens that are runs of decimal digits, and the prefixes of the legacy
\* patterns.
DigitRuns == Ids19 \cup {ShortDigits, OtherDigits}
LegacyPrefixes == <<VideoPath, "aweme_id=", "modal_id=">>

\* Index of the first token of s that is in the set toks, 0 when none is.
FirstIndex(s, toks) ==
    IF \E i \in 1..Len(s) : s[i] \in toks
    THEN CHOOSE i \in 1..Len(s) :
            s[i] \in toks /\ \A j \in 1..(i - 1) : s[j] \notin toks
    ELSE 0

\* re.search(r'(https?://[^\s]+)', s): from the first URL start up to the
\* next whitespace; <<>> when there is no URL.
UrlMatch(s) ==
    LET b == FirstIndex(s, UrlStarts)
        rest == IF b = 0 THEN <<>> ELSE SubSeq(s, b, Len(s))
        e == FirstIndex(rest, {" "})
    IN  IF b = 0 THEN <<>>
        ELSE IF e = 0 THEN rest ELSE SubSeq(rest, 1, e - 1)

\* "v.douyin.com" in url or "douyin.com/share/" in url
IsShortLink(url) ==
    \/ \E i \in 1..Len(url) : url[i] = ShortHost
    \/ \E i \in 1..(Len(url) - 1) : url[i] = UrlHost /\ url[i + 1] = SharePath

\* The outcome of requests.head(url, allow_redirects=True): the final URL,
\* or a failure (timeout, connection error).
HeadFailed == [ok |-> FALSE, target |-> <<>>]
HeadTo(target) == [ok |-> TRUE, target |-> target]

\* _resolve_redirects(url) that never follows a redirect.
ResolveRedirects_KeepsShortForm(url, head) == url

\* _resolve_redirects(url) when the HEAD request, if one is made, has the
\* outcome head.
ResolveRedirects(url, head) ==
    IF IsShortLink(url) /\ head.ok THEN head.target ELSE url

\* re.search(pattern, s) for r'<prefix>(\d+)': the digits after the first
\* occurrence of the prefix that digits follow.
LegacyMatch(s, prefix) ==
    LET hits == { i \in 1..(Len(s) - 1) : s[i] = prefix /\ s[i + 1] \in DigitRuns }
    IN  IF hits = {} THEN Unresolved
        ELSE s[(CHOOSE i \in hits : \A j \in hits : i <= j) + 1]

\* The loop over the legacy patterns taken in the reverse order.
SearchLegacy_LastPattern(input_str) ==
    LET legacy == { k \in 1..Len(LegacyPrefixes) :
                      LegacyMatch(input_str, LegacyPrefixes[k]) # Unresolved }
    IN  IF legacy = {} THEN Unresolved
        ELSE LegacyMatch(input_str,
                         LegacyPrefixes[CHOOSE k \in legacy : \A j \in legacy : k >= j])

\* Step 3 of _extract_aweme_id: the first legacy pattern that matches.
SearchLegacy(input_str) ==
    LET legacy == { k \in 1..Len(LegacyPrefixes) :
                      LegacyMatch(input_str, LegacyPrefixes[k]) # Unresolved }
    IN  IF legacy = {} THEN Unresolved
        ELSE LegacyMatch(input_str,
                         LegacyPrefixes[CHOOSE k \in legacy : \A j \in legacy : k <= j])

\* Steps 2 and 3 of _extract_aweme_id: re.search(r'\d{19}', input_str), then
\* the legacy patterns.
SearchId(input_str) ==
    LET m == FirstIndex(input_str, Ids19)
    IN  IF m # 0 THEN input_str[m] ELSE SearchLegacy(input_str)

\* Step 1 of _extract_aweme_id: the text the searches run on.
SearchedText(input, head) ==
    LET stripped == Strip(input)
        url == UrlMatch(stripped)
    IN  IF url # <<>> THEN ResolveRedirects(url, head) ELSE stripped

\* _extract_aweme_id(input_str) when a HEAD request has the outcome head.
ExtractAwemeIdVia(input, head) == SearchId(SearchedText(input, head))

\* _extract_aweme_id(input_str) for an input without a short link.
ExtractAwemeId(input) == ExtractAwemeIdVia(input, HeadFailed)


-----------------------------------------------------------------------------
(* scripts/douyin_api.py: the records fetch_video and fetch_videos_batch   *)
(* return.  An optional value (a record or None) is a sequence of length   *)
(* one or zero.  A record is the 'data' part of {"code": 0, "data": ...}.  *)

\* What the video-data backend holds for a video: the part of aweme_detail
\* the workflow reads.  text_extra_ok is FALSE when 'text_extra' is null.
GoodDetail ==
    [desc |-> <<"T">>, create_time |-> 1, digg_count |-> 5, play_count |-> 100,
     text_extra_ok |-> TRUE]
BrokenDetail == [GoodDetail EXCEPT !.text_extra_ok = FALSE]
\* A video whose description begins with the warning sign, and one whose
\* counts are all 0.
WarnDetail == [GoodDetail EXCEPT !.desc = <<WarnMark, "T">>]
ZeroDetail == [GoodDetail EXCEPT !.digg_count = 0, !.play_count = 0]

\* f"https://www.douyin.com/video/{aweme_id}"
ShareUrl(aweme_id_text) == <<UrlHost, VideoPath>> \o aweme_id_text

\* The record built from an aweme_detail (fetch_video: converted_data,
\* fetch_videos_batch: converted_data with "_data_source").
ConvertedData(aweme_id, detail, source) ==
    [aweme_id |-> aweme_id, share_url |-> ShareUrl(<<aweme_id>>),
     desc |-> detail.desc, create_time |-> detail.create_time,
     is_delete |-> FALSE,
     play_count |-> detail.play_count, digg_count |-> detail.digg_count,
     data_source |-> source, text_extra_ok |-> detail.text_extra_ok]

\* The "removed" record fetch_video returns for a 404 whose body has
\* detail "Not Found" when the mobile fallback gave nothing.
NotFoundRecord(aweme_id) ==
    [aweme_id |-> aweme_id, share_url |-> <<>>,
     desc |-> <<NotFoundDesc>>, create_time |-> 0, is_delete |-> TRUE,
     play_count |-> 0, digg_count |-> 0,
     data_source |-> "", text_extra_ok |-> TRUE]

\* The record fetch_video returns for a 200 reply that has a filter_detail
\* and no aweme_detail.
FilteredRecord(aweme_id) ==
    [NotFoundRecord(aweme_id) EXCEPT !.desc = <<Sentinel>>]

\* fetch_video(url) against a backend whose answer for the video is reply:
\* kind "ok" (a detail), "notfound" (404 Not Found, no mobile record),
\* "filtered" (filter_detail only) or "fail" (no usable reply in 3 attempts).
FetchVideo(url, reply) ==
    LET aweme_id == ExtractAwemeId(url)
    IN  IF aweme_id = Unresolved THEN <<>>
        ELSE CASE reply.single = "ok" ->
                    <<ConvertedData(aweme_id, reply.detail, "")>>
               [] reply.single = "notfound" -> <<NotFoundRecord(aweme_id)>>
               [] reply.single = "filtered" -> <<FilteredRecord(aweme_id)>>
               [] OTHER -> <<>>

\* The play-count supplement of fetch_videos_batch: the statistics entry of
\* the App API, when there is one for this key, replaces play_count.
SupplementPlayCount(key, opt, app) ==
    IF opt # <<>> /\ app.present /\ Len(key) = 1 /\ key[1] \in Ids19
    THEN <<[opt[1] EXCEPT !.play_count = app.n, !.data_source = "App API"]>>
    ELSE opt

\* The entry of fetch_videos_batch's result for one requested key: the
\* record of the batch response when it lists the key, else the single-fetch
\* fallback on the video URL built from the key; then the supplement.
BatchEntry(key, reply) ==
    LET listed == reply.web = "listed" /\ Len(key) = 1 /\ key[1] \in Ids19
        base == IF listed
                THEN <<ConvertedData(key[1], reply.detail, "Web API")>>
                ELSE FetchVideo(ShareUrl(key), reply)
    IN  SupplementPlayCount(key, base, reply.app)

\* fetch_videos_batch(aweme_ids) as a mapping from each requested key to its
\* optional record; every value is None when the batch request raised.
FetchVideosBatch(aweme_ids, replies, raised) ==
    [key \in { aweme_ids[i] : i \in 1..Len(aweme_ids) } |->
        IF raised THEN <<>> ELSE BatchEntry(key, replies[key])]

-----------------------------------------------------------------------------
(* scripts/douyin_parser.py: DouyinParser.parse_video.                     *)

\* parse_video(api_response): the field mapping written to the table, None
\* (<<>>) when parsing raised.  Columns that depend on parts of the record
\* the model does not carry hold "-".
ParseVideo(video_data) ==
    LET is_deleted == video_data.is_delete
        aweme_id == IF video_data.aweme_id = Unresolved THEN <<>>
                    ELSE <<video_data.aweme_id>>
        desc == IF is_deleted \/ (aweme_id # <<>> /\ video_data.desc = <<>>
                                    /\ video_data.create_time = 0)
                THEN <<Sentinel>> ELSE video_data.desc
    IN  IF ~video_data.text_extra_ok THEN <<>>
        ELSE << [f \in ParsedFieldNames |->
                  CASE f = FVideoId -> aweme_id
                    [] f = "video_link" -> video_data.share_url
                    [] f = FTitle -> desc
                    [] f = "publish_time" -> video_data.create_time * 1000
                    [] f = FPlays -> video_data.play_count
                    [] f = FLikes -> video_data.digg_count
                    [] f = "data_source" ->
                         IF video_data.data_source = "" THEN "Web API"
                         ELSE video_data.data_source
                    [] OTHER -> "-"] >>


-----------------------------------------------------------------------------
(* scripts/sync.py: cmd_sync.                                              *)

\* Keys of an insertion-ordered dict kept as a sequence of entries.
GroupKeys(groups) == { groups[i].vid : i \in 1..Len(groups) }

\* Faulty variant of AddRecord: a duplicate is put in front of the earlier
\* duplicates.
AddRecord_PrependsDuplicate(groups, record) ==
    LET video_id == extract_video_id(record.fields.video_id)
    IN  IF video_id = <<>> THEN groups
        ELSE IF video_id \notin GroupKeys(groups)
        THEN Append(groups, [vid |-> video_id, master |-> record,
                             duplicates |-> <<>>])
        ELSE [i \in 1..Len(groups) |->
                IF groups[i].vid = video_id
                THEN [groups[i] EXCEPT !.duplicates = <<record>> \o @]
                ELSE groups[i]]

\* Faulty variant of AddRecord: a duplicate is appended to every group.
AddRecord_AppendsToEveryGroup(groups, record) ==
    LET video_id == extract_video_id(record.fields.video_id)
    IN  IF video_id = <<>> THEN groups
        ELSE IF video_id \notin GroupKeys(groups)
        THEN Append(groups, [vid |-> video_id, master |-> record,
                             duplicates |-> <<>>])
        ELSE [i \in 1..Len(groups) |->
                [groups[i] EXCEPT !.duplicates = Append(@, record)]]

\* Faulty variant of AddRecord: a record with an empty key is grouped too.
AddRecord_KeepsEmptyKey(groups, record) ==
    LET video_id == extract_video_id(record.fields.video_id)
    IN  IF video_id \notin GroupKeys(groups)
        THEN Append(groups, [vid |-> video_id, master |-> record,
                             duplicates |-> <<>>])
        ELSE [i \in 1..Len(groups) |->
                IF groups[i].vid = video_id
                THEN [groups[i] EXCEPT !.duplicates = Append(@, record)]
                ELSE groups[i]]

\* One iteration of the grouping loop: the record is skipped when its key
\* is empty, opens a group when the key is new, and is appended to the
\* duplicates of its group otherwise.
AddRecord(groups, record) ==
    LET video_id == extract_video_id(record.fields.video_id)
    IN  IF video_id = <<>> THEN groups
        ELSE IF video_id \notin GroupKeys(groups)
        THEN Append(groups, [vid |-> video_id, master |-> record,
                             duplicates |-> <<>>])
        ELSE [i \in 1..Len(groups) |->
                IF groups[i].vid = video_id
                THEN [groups[i] EXCEPT !.duplicates = Append(@, record)]
                ELSE groups[i]]

\* The grouping loop over records, in list order.
RECURSIVE GroupRows(_, _)
GroupRows(recs, groups) ==
    IF recs = <<>> THEN groups
    ELSE GroupRows(Tail(recs), AddRecord(groups, Head(recs)))

\* Faulty variant of NeedsFetch: every group is fetched.
NeedsFetch_Always(group, forced) == TRUE

\* Faulty variant of NeedsFetch: force is not consulted.
NeedsFetch_IgnoresForce(group, forced) == ~IsComplete(group.master.fields)

\* if args.force or not is_complete
NeedsFetch(group, forced) == forced \/ ~IsComplete(group.master.fields)

\* Faulty variant of SelectVideosToFetch: the list is built back to front.
RECURSIVE SelectVideosToFetch_Reversed(_, _)
SelectVideosToFetch_Reversed(groups, forced) ==
    IF groups = <<>> THEN <<>>
    ELSE SelectVideosToFetch_Reversed(Tail(groups), forced)
         \o (IF NeedsFetch(Head(groups), forced) THEN <<Head(groups).vid>> ELSE <<>>)

\* The selection loop over video_groups.items(), in insertion order.
RECURSIVE SelectVideosToFetch(_, _)
SelectVideosToFetch(groups, forced) ==
    IF groups = <<>> THEN <<>>
    ELSE (IF NeedsFetch(Head(groups), forced) THEN <<Head(groups).vid>> ELSE <<>>)
         \o SelectVideosToFetch(Tail(groups), forced)

\* "x in list" for a Python list kept as a sequence.
InList(x, list) == \E i \in 1..Len(list) : list[i] = x

\* The parsing loop: parsed_results has an entry for every fetched record,
\* None (<<>>) when parse_video returned None.
ParseAll(results) ==
    [key \in { k \in DOMAIN results : results[k] # <<>> } |->
        ParseVideo(results[key][1])]

\* parsed_results.get(video_id)
ParsedOf(parsed, video_id) ==
    IF video_id \in DOMAIN parsed THEN parsed[video_id] ELSE <<>>

\* Faulty variant of UpdateOf: the update for a missing record also resets
\* the counts.
UpdateOf_ClearsCounts(group, parsed) ==
    LET parsed_data == ParsedOf(parsed, group.vid)
    IN  IF parsed_data # <<>>
        THEN [record_id |-> group.master.record_id, fields |-> parsed_data[1]]
        ELSE [record_id |-> group.master.record_id,
              fields |-> (FTitle :> <<Sentinel>>) @@ (FPlays :> 0) @@ (FLikes :> 0)]

\* The update built for one group that is in videos_to_fetch.
UpdateOf(group, parsed) ==
    LET parsed_data == ParsedOf(parsed, group.vid)
    IN  IF parsed_data # <<>>
        THEN [record_id |-> group.master.record_id, fields |-> parsed_data[1]]
        ELSE [record_id |-> group.master.record_id,
              fields |-> (FTitle :> <<Sentinel>>)]

\* Faulty variant of BuildUpdates: every group gets an update.
RECURSIVE BuildUpdates_EveryGroup(_, _, _)
BuildUpdates_EveryGroup(groups, to_fetch, parsed) ==
    IF groups = <<>> THEN <<>>
    ELSE <<UpdateOf(Head(groups), parsed)>>
         \o BuildUpdates_EveryGroup(Tail(groups), to_fetch, parsed)

\* The update loop over video_groups.items().
RECURSIVE BuildUpdates(_, _, _)
BuildUpdates(groups, to_fetch, parsed) ==
    IF groups = <<>> THEN <<>>
    ELSE (IF InList(Head(groups).vid, to_fetch)
          THEN <<UpdateOf(Head(groups), parsed)>> ELSE <<>>)
         \o BuildUpdates(Tail(groups), to_fetch, parsed)

\* updated_count: the groups in videos_to_fetch with a parsed record.
UpdatedCount(groups, to_fetch, parsed) ==
    Cardinality({ i \in 1..Len(groups) :
                    /\ InList(groups[i].vid, to_fetch)
                    /\ ParsedOf(parsed, groups[i].vid) # <<>> })

\* The summary; status "none" until cmd_sync returns.
Summary(status, total, unique, updated, skip, failed) ==
    [status |-> status, total_records |-> total, unique_videos |-> unique,
     updated |-> updated, skipped |-> skip, failed |-> failed]
NoSummary(status) == Summary(status, 0, 0, 0, 0, 0)


-----------------------------------------------------------------------------
(* The inputs: the table the backend holds and the backend's replies.      *)

\* A canonical URL of video IdA.
UrlA == <<UrlHost, VideoPath, IdA>>

\* The other fields of a row that already has its data, and of one that has
\* none.
FilledFields == [title |-> StrV(<<"T">>), likes |-> Count(120), plays |-> NoCount]
BlankFields == [title |-> NoneV, likes |-> NoCount, plays |-> NoCount]

Fields(v, rest) ==
    [video_id |-> v, title |-> rest.title, likes |-> rest.likes,
     plays |-> rest.plays]

\* Values of the 视频ID field that hold no text: missing, whitespace only,
\* an empty list, a rich-text item with empty text.
EmptyIdValues == { NoneV, StrV(<<" ">>), EmptyListV, ListDictV(<<>>) }

\* Identifier-holding rows: IdA as text, with and without data; IdA as a
\* rich-text item with leading whitespace; IdB as text.
PlainRowFields ==
    { Fields(StrV(<<IdA>>), FilledFields), Fields(StrV(<<IdA>>), BlankFields),
      Fields(ListDictV(<<" ", IdA>>), BlankFields),
      Fields(StrV(<<IdB>>), BlankFields) }

\* Values that hold other text: a URL of video IdA, and text with no
\* identifier in it.
OtherIdValues == { StrV(UrlA), StrV(<<"x">>) }

\* The rows of the tables of Spec.
RowFields ==
    { Fields(v, FilledFields) : v \in EmptyIdValues }
    \cup PlainRowFields
    \cup { Fields(v, BlankFields) : v \in OtherIdValues }

\* Values of the 标题描述 field, and of the 点赞数 and 播放量 fields.
TitleValues ==
    { NoneV, StrV(<<>>), EmptyListV, ListDictV(<<>>),
      StrV(<<"T">>), ListStrV(<<"T">>), ListDictV(<<"T">>),
      StrV(<<Sentinel>>), ListDictV(<<Sentinel>>), StrV(<<Sentinel, "T">>),
      StrV(<<WarnMark, "T">>) }
LikeValues == { NoCount, Count(0), Count(120) }
PlayValues == { NoCount, Count(0), Count(100) }

\* The first rows of the tables of SpecClassify: every combination of
\* title, like count and play count, for video IdA.
ClassifyFields ==
    { [video_id |-> StrV(<<IdA>>), title |-> t, likes |-> l, plays |-> p] :
        t \in TitleValues, l \in LikeValues, p \in PlayValues }

\* The rows that follow the first one in the tables of SpecClassify.
PlainFields ==
    { Fields(v, rest) : v \in {StrV(<<IdA>>), StrV(<<IdB>>)},
                        rest \in {FilledFields, BlankFields} }

\* The records of a table whose rows hold the given fields; the backend
\* gives every row its own record_id.
TableOf(f) == [i \in DOMAIN f |-> [record_id |-> i, fields |-> f[i]]]

Tables(rowFields) ==
    { TableOf(f) : f \in UNION { [1..n -> rowFields] : n \in 0..MaxRows } }

\* Tables that start with a row of firstFields, followed by rows of
\* restFields.
TablesFrom(firstFields, restFields) ==
    { TableOf(<<first>> \o rest) :
        first \in firstFields,
        rest \in UNION { [1..n -> restFields] : n \in 0..(MaxRows - 1) } }

\* What the video-data backend answers for one requested key.
Reply(web, single, detail, app) ==
    [web |-> web, single |-> single, detail |-> detail, app |-> app]

BackendReplies ==
    { Reply("listed", "fail", GoodDetail, NoCount),
      Reply("listed", "fail", BrokenDetail, NoCount),
      Reply("missing", "ok", GoodDetail, Count(80)),
      Reply("missing", "notfound", GoodDetail, NoCount),
      Reply("missing", "fail", GoodDetail, NoCount) }

\* The replies of the runs that are followed by a second run.
RerunReplies ==
    { Reply("listed", "fail", GoodDetail, NoCount),
      Reply("listed", "fail", WarnDetail, NoCount),
      Reply("listed", "fail", ZeroDetail, NoCount),
      Reply("missing", "notfound", GoodDetail, NoCount),
      Reply("missing", "fail", GoodDetail, NoCount) }

\* The backend's replies for the requested keys; when the batch request
\* raises no reply is read, so one assignment stands for all.
RepliesFor(aweme_ids, raised) ==
    LET keys == { aweme_ids[i] : i \in 1..Len(aweme_ids) }
    IN  IF raised
        THEN { [k \in keys |-> Reply("missing", "fail", GoodDetail, NoCount)] }
        ELSE [keys -> IF proc.rerun THEN RerunReplies ELSE BackendReplies]

-----------------------------------------------------------------------------
(* The state machine of one run of cmd_sync.                               *)

\* cmd_query and cmd_brands are not running.
CommandsOff ==
    /\ query = [pc |-> "off"]
    /\ brands = [pc |-> "off"]

\* The configuration get_config() returns, by which values are set.
ConfigOf(api_key, app_id, app_secret) ==
    [douyin_api_key |-> api_key, feishu_app_id |-> app_id,
     feishu_app_secret |-> app_secret]
Configs == { ConfigOf(k, i, s) : k \in BOOLEAN, i \in BOOLEAN, s \in BOOLEAN }
ValidConfig == ConfigOf(TRUE, TRUE, TRUE)

\* A validation that does not look at the app secret.
ValidateConfig_IgnoresSecret(config, require_feishu) ==
    /\ config.douyin_api_key
    /\ require_feishu => config.feishu_app_id

\* validate_config(config, require_feishu): is_valid, that is, "missing" is
\* empty.
ValidateConfig(config, require_feishu) ==
    LET missing ==
          (IF ~config.douyin_api_key THEN {"DOUYIN_API_KEY"} ELSE {})
          \cup (IF require_feishu /\ ~config.feishu_app_id
                THEN {"FEISHU_APP_ID"} ELSE {})
          \cup (IF require_feishu /\ ~config.feishu_app_secret
                THEN {"FEISHU_APP_SECRET"} ELSE {})
    IN  missing = {}

\* One call to the spreadsheet backend or to the video-data API, and how it
\* ended: "ok", "raise" (an HTTP or network error, or a refused token or
\* listing) or, for the update, "rejected" (a reply whose code is not 0,
\* which update_records logs and does not raise).
Call(op, outcome) == [op |-> op, outcome |-> outcome]

\* The process of one run: its configuration, whether --app-token and
\* --table-id were given, the calls made so far and the exit code once the
\* run has ended.  backend says whether the spreadsheet backend may fail,
\* rerun whether a second run follows; first keeps what the first run sent.
ProcAt(config, args_ok, backend, rerun) ==
    [run |-> "first", config |-> config, args_ok |-> args_ok,
     backend |-> backend, rerun |-> rerun, calls |-> <<>>,
     exit_code |-> <<>>, stored |-> FALSE, first |-> <<>>]

\* The ways a call to the spreadsheet backend can end in this run.
Outcomes(kinds) == IF proc.backend = "reliable" THEN {"ok"} ELSE kinds

\* An update whose reply has a code other than 0 ends the run like one that
\* raised.
ExitAfterUpdate_RejectedFails(outcome) ==
    IF outcome \in {"raise", "rejected"} THEN <<1>> ELSE <<0>>

\* The exit code once update_records has returned or raised: the handler
\* of cmd_sync exits with 1, the end of cmd_sync is exit code 0.
ExitAfterUpdate(outcome) == IF outcome = "raise" THEN <<1>> ELSE <<0>>

\* A store that keeps the rows as they were.
StoredFields_Unchanged(fields, update) == fields

\* The fields of a row after the backend stored an update of it: the
\* columns the update names are overwritten.
StoredFields(fields, update) ==
    [video_id |-> IF FVideoId \in DOMAIN update
                  THEN StrV(update[FVideoId]) ELSE fields.video_id,
     title |-> IF FTitle \in DOMAIN update
               THEN StrV(update[FTitle]) ELSE fields.title,
     likes |-> IF FLikes \in DOMAIN update
               THEN Count(update[FLikes]) ELSE fields.likes,
     plays |-> IF FPlays \in DOMAIN update
               THEN Count(update[FPlays]) ELSE fields.plays]

\* The table after the backend stored the updates of batch_update.
ApplyUpdates(rows, payload) ==
    [i \in DOMAIN rows |->
        IF \E n \in 1..Len(payload) : payload[n].record_id = rows[i].record_id
        THEN [rows[i] EXCEPT !.fields =
                StoredFields(@, payload[CHOOSE n \in 1..Len(payload) :
                                  payload[n].record_id = rows[i].record_id].fields)]
        ELSE rows[i]]

InitSync(tables, forces, procs) ==
    /\ pc = "config"
    /\ force \in forces
    /\ table \in tables
    /\ records = <<>>
    /\ video_groups = <<>>
    /\ videos_to_fetch = <<>>
    /\ skipped = 0
    /\ batch_results = <<>>
    /\ parsed_results = <<>>
    /\ updates = <<>>
    /\ sent = <<>>
    /\ result = NoSummary("none")
    /\ proc \in procs
    /\ resolver = [pc |-> "off"]
    /\ fetcher = [pc |-> "off"]
    /\ batch = [pc |-> "off"]
    /\ CommandsOff

\* A run with a complete configuration against a spreadsheet backend that
\* answers every call.
InitWith(tables) ==
    InitSync(tables, BOOLEAN, {ProcAt(ValidConfig, TRUE, "reliable", FALSE)})

Init == InitWith(Tables(RowFields))

InitClassify == InitWith(TablesFrom(ClassifyFields, PlainFields))

\* validate_config(config, require_feishu=True) and the check of
\* --app-token and --table-id: sys.exit(1) before any client is built.
CheckConfig ==
    /\ pc = "config"
    /\ LET ok == ValidateConfig(proc.config, TRUE) /\ proc.args_ok
       IN  /\ pc' = IF ok THEN "auth" ELSE "done"
           /\ result' = IF ok THEN result
                        ELSE IF ValidateConfig(proc.config, TRUE)
                             THEN NoSummary("usage_error")
                             ELSE NoSummary("config_error")
           /\ proc' = IF ok THEN proc ELSE [proc EXCEPT !.exit_code = <<1>>]
    /\ UNCHANGED <<force, table, records, video_groups, videos_to_fetch, skipped,
                   batch_results, parsed_results, updates, sent>>
    /\ UNCHANGED <<apivars, cmdvars>>

\* feishu.get_tenant_access_token(); an exception ends the run in the
\* handler of cmd_sync with sys.exit(1).
GetToken ==
    /\ pc = "auth"
    /\ \E outcome \in Outcomes({"ok", "raise"}) :
          /\ pc' = IF outcome = "ok" THEN "start" ELSE "done"
          /\ result' = IF outcome = "ok" THEN result ELSE NoSummary("error")
          /\ proc' = [proc EXCEPT
                !.calls = Append(@, Call("token", outcome)),
                !.exit_code = IF outcome = "ok" THEN @ ELSE <<1>>]
    /\ UNCHANGED <<force, table, records, video_groups, videos_to_fetch, skipped,
                   batch_results, parsed_results, updates, sent>>
    /\ UNCHANGED <<apivars, cmdvars>>

\* records = feishu.list_records(...); "if not records: return".
ListRecords ==
    /\ pc = "start"
    /\ \E outcome \in Outcomes({"ok", "raise"}) :
          /\ records' = IF outcome = "ok" THEN table ELSE records
          /\ pc' = IF outcome = "ok" /\ table # <<>> THEN "group" ELSE "done"
          /\ result' = IF outcome = "raise" THEN NoSummary("error")
                       ELSE IF table = <<>> THEN NoSummary("no_records")
                       ELSE result
          /\ proc' = [proc EXCEPT
                !.calls = Append(@, Call("list", outcome)),
                !.exit_code = IF outcome = "raise" THEN <<1>>
                              ELSE IF table = <<>> THEN <<0>> ELSE @]
    /\ UNCHANGED <<force, table, video_groups, videos_to_fetch, skipped,
                   batch_results, parsed_results, updates, sent>>
    /\ UNCHANGED <<apivars, cmdvars>>

\* The grouping loop; "if not video_groups: return".
GroupRecords ==
    /\ pc = "group"
    /\ video_groups' = GroupRows(records, <<>>)
    /\ pc' = IF video_groups' = <<>> THEN "done" ELSE "select"
    /\ result' = IF video_groups' = <<>> THEN NoSummary("no_valid_ids") ELSE result
    /\ proc' = IF video_groups' = <<>> THEN [proc EXCEPT !.exit_code = <<0>>]
               ELSE proc
    /\ UNCHANGED <<force, table, records, videos_to_fetch, skipped,
                   batch_results, parsed_results, updates, sent>>
    /\ UNCHANGED <<apivars, cmdvars>>

\* The selection loop and skipped; "if not videos_to_fetch: return".
SelectVideos ==
    /\ pc = "select"
    /\ videos_to_fetch' = SelectVideosToFetch(video_groups, force)
    /\ skipped' = Len(video_groups) - Len(videos_to_fetch')
    /\ pc' = IF videos_to_fetch' = <<>> THEN "done" ELSE "fetch"
    /\ result' = IF videos_to_fetch' = <<>> THEN NoSummary("up_to_date") ELSE result
    /\ proc' = IF videos_to_fetch' = <<>> THEN [proc EXCEPT !.exit_code = <<0>>]
               ELSE proc
    /\ UNCHANGED <<force, table, records, video_groups,
                   batch_results, parsed_results, updates, sent>>
    /\ UNCHANGED <<apivars, cmdvars>>

\* batch_results = api.fetch_videos_batch(videos_to_fetch)
FetchBatch ==
    /\ pc = "fetch"
    /\ \E raised \in BOOLEAN :
          \E replies \in RepliesFor(videos_to_fetch, raised) :
             batch_results' = FetchVideosBatch(videos_to_fetch, replies, raised)
    /\ pc' = "parse"
    /\ proc' = [proc EXCEPT !.calls = Append(@, Call("fetch", "ok"))]
    /\ UNCHANGED <<force, table, records, video_groups, videos_to_fetch,
                   skipped, parsed_results, updates, sent, result>>
    /\ UNCHANGED <<apivars, cmdvars>>

\* The parsing loop.
ParseResults ==
    /\ pc = "parse"
    /\ parsed_results' = ParseAll(batch_results)
    /\ pc' = "update"
    /\ UNCHANGED <<force, table, records, video_groups, videos_to_fetch,
                   skipped, batch_results, updates, sent, result, proc>>
    /\ UNCHANGED <<apivars, cmdvars>>

\* The update loop, "if updates: feishu.update_records(...)" and the
\* summary.  The request raises, is rejected with a code other than 0 (logged
\* only) or is stored by the backend.
UpdateFeishu ==
    /\ pc = "update"
    /\ updates' = BuildUpdates(video_groups, videos_to_fetch, parsed_results)
    /\ sent' = updates'
    /\ \E outcome \in IF updates' = <<>> THEN {"none"}
                      ELSE Outcomes({"ok", "rejected", "raise"}) :
          LET updated_count ==
                UpdatedCount(video_groups, videos_to_fetch, parsed_results)
          IN  /\ table' = IF outcome = "ok" THEN ApplyUpdates(table, updates')
                          ELSE table
              /\ result' = IF outcome = "raise" THEN NoSummary("error")
                           ELSE Summary("success", Len(records), Len(video_groups),
                                        updated_count, skipped,
                                        Len(videos_to_fetch) - updated_count)
              /\ proc' = [proc EXCEPT
                    !.calls = IF outcome = "none" THEN @
                              ELSE Append(@, Call("update", outcome)),
                    !.stored = outcome = "ok",
                    !.exit_code = ExitAfterUpdate(outcome)]
    /\ pc' = "done"
    /\ UNCHANGED <<force, records, video_groups, videos_to_fetch,
                   skipped, batch_results, parsed_results>>
    /\ UNCHANGED <<apivars, cmdvars>>

Next ==
    \/ CheckConfig
    \/ GetToken
    \/ ListRecords
    \/ GroupRecords
    \/ SelectVideos
    \/ FetchBatch
    \/ ParseResults
    \/ UpdateFeishu

Spec == Init /\ [][Next]_vars

\* The run up to the end of the selection loop, where records and
\* video_groups have their final values.
NextGroup ==
    \/ CheckConfig
    \/ GetToken
    \/ ListRecords
    \/ GroupRecords
    \/ SelectVideos

SpecGroup == Init /\ [][NextGroup]_vars

\* The same run over tables whose first row takes every combination of
\* title, like count and play count.
SpecClassify == InitClassify /\ [][Next]_vars


-----------------------------------------------------------------------------
(* Properties of the grouping and of the selection.                        *)

\* The grouping loop has run.
Grouped == pc \notin {"config", "auth", "start", "group"}

\* The selection loop has run.
Selected ==
    \/ pc \in {"fetch", "parse", "update"}
    \/ pc = "done" /\ result.status \in {"up_to_date", "success"}

\* The run has sent its updates and printed its summary.
Synced == pc = "done" /\ result.status = "success"

\* The key under which row i of records is grouped.
RowKey(i) == extract_video_id(records[i].fields.video_id)

\* The rows of records at the positions in S, in list order.
RowsAt(S) ==
    LET F[k \in 0..Len(records)] ==
            IF k = 0 THEN <<>>
            ELSE IF k \in S THEN Append(F[k - 1], records[k]) ELSE F[k - 1]
    IN  F[Len(records)]

\* The positions of the rows that carry the key vid, and the first of them.
RowsOf(vid) == { i \in 1..Len(records) : RowKey(i) = vid }
FirstRowOf(vid) ==
    CHOOSE i \in 1..Len(records) :
        RowKey(i) = vid /\ \A j \in 1..(i - 1) : RowKey(j) # vid

\* C1: the master of each group is the first row, in list order, that
\* carries the group's identifier, and the group's duplicates are exactly
\* the later rows with that identifier, in list order.
C1_MasterFirstDuplicatesInOrder ==
    Grouped =>
        \A g \in 1..Len(video_groups) :
            LET vid == video_groups[g].vid
                rows == RowsOf(vid)
                first == FirstRowOf(vid)
            IN  /\ rows # {}
                /\ video_groups[g].master = records[first]
                /\ video_groups[g].duplicates = RowsAt(rows \ {first})

\* A finished run whose table has three rows with one identifier: a master
\* and two duplicates.
C1_Witness ==
    /\ pc = "done"
    /\ \E g \in 1..Len(video_groups) : Len(video_groups[g].duplicates) = 2

\* The places (group, 0 for the master or k for the k-th duplicate) at which
\* the row with the given record_id occurs in video_groups.
Occurrences(rid) ==
    { pl \in (1..Len(video_groups)) \X (0..Len(records)) :
        \/ pl[2] = 0 /\ video_groups[pl[1]].master.record_id = rid
        \/ /\ pl[2] >= 1
           /\ pl[2] <= Len(video_groups[pl[1]].duplicates)
           /\ video_groups[pl[1]].duplicates[pl[2]].record_id = rid }

\* C2: after grouping, every row with a non-empty identifier occurs at
\* exactly one place of video_groups: as the master of one group or as one
\* entry of one group's duplicates.
C2_EveryRowInExactlyOneGroup ==
    Grouped =>
        \A i \in 1..Len(records) :
            RowKey(i) # <<>> =>
                Cardinality(Occurrences(records[i].record_id)) = 1

\* A finished run with two groups, one of which has a duplicate.
C2_Witness ==
    /\ pc = "done"
    /\ Len(video_groups) = 2
    /\ \E g \in 1..Len(video_groups) : video_groups[g].duplicates # <<>>

\* The title, like count and play count as the classification rule names
\* them: the text of the title field, and a count that is present and
\* positive.
TitleText(fields) == fields.title.text
Populated(c) == c.present /\ c.n > 0
ClassifiedComplete(fields) ==
    /\ TitleText(fields) # <<>>
    /\ TitleText(fields) # <<Sentinel>>
    /\ Head(TitleText(fields)) # WarnMark
    /\ (Populated(fields.likes) \/ Populated(fields.plays))

\* C3: a group is complete exactly when its master row's title is
\* non-empty, is neither the removed-video sentinel nor a warning marker,
\* and the like count or the play count is populated; every other group is
\* marked for refresh (observed on a run without force, where the groups
\* marked for refresh are those in videos_to_fetch).
C3_CompleteIffTitleAndCount ==
    (Selected /\ ~force) =>
        \A g \in 1..Len(video_groups) :
            InList(video_groups[g].vid, videos_to_fetch)
                <=> ~ClassifiedComplete(video_groups[g].master.fields)

\* A run without force whose first group has the sentinel as title and a
\* positive like count, and is marked for refresh.
C3_Witness ==
    /\ Selected /\ ~force
    /\ video_groups[1].master.fields.title = StrV(<<Sentinel>>)
    /\ video_groups[1].master.fields.likes = Count(120)
    /\ InList(video_groups[1].vid, videos_to_fetch)

\* C4: with force, every group is in videos_to_fetch, complete groups
\* included, and skipped is zero.
C4_ForceFetchesEveryGroup ==
    (Selected /\ force) =>
        /\ \A g \in 1..Len(video_groups) :
               InList(video_groups[g].vid, videos_to_fetch)
        /\ skipped = 0

\* A forced run over a table with a complete group.
C4_Witness ==
    /\ Selected /\ force
    /\ \E g \in 1..Len(video_groups) : IsComplete(video_groups[g].master.fields)

\* C5: without force, videos_to_fetch holds exactly the identifiers of the
\* groups that are not complete, each once, in the order in which the
\* groups' master rows occur in records.
C5_ToFetchIsStaleGroupsInOrder ==
    (Selected /\ ~force) =>
        /\ { videos_to_fetch[i] : i \in 1..Len(videos_to_fetch) }
             = { video_groups[g].vid :
                   g \in { h \in 1..Len(video_groups) :
                             ~IsComplete(video_groups[h].master.fields) } }
        /\ \A i, j \in 1..Len(videos_to_fetch) :
               i < j =>
                   /\ videos_to_fetch[i] # videos_to_fetch[j]
                   /\ FirstRowOf(videos_to_fetch[i]) < FirstRowOf(videos_to_fetch[j])

\* A run without force with three groups of which the first and the last
\* are marked for refresh and the middle one is complete.
C5_Witness ==
    /\ Selected /\ ~force
    /\ Len(video_groups) = 3
    /\ videos_to_fetch = <<video_groups[1].vid, video_groups[3].vid>>


-----------------------------------------------------------------------------
(* Properties of the updates.                                              *)

\* The master row of the group with key vid.
MasterOf(vid) ==
    video_groups[CHOOSE g \in 1..Len(video_groups) : video_groups[g].vid = vid].master

\* The updates sent that are addressed to the row with the given record_id.
SentTo(rid) == { u \in 1..Len(sent) : sent[u].record_id = rid }

\* C6: the update list sent to the backend holds exactly one update for
\* each identifier of videos_to_fetch, addressed to the master row of its
\* group; a group that is not in videos_to_fetch gets no update, a duplicate
\* row is never addressed, and a run that ends early sends nothing.
C6_OneUpdatePerFetchedMaster ==
    /\ ~Synced => sent = <<>>
    /\ Synced =>
        /\ sent = updates
        /\ Len(sent) = Len(videos_to_fetch)
        /\ \A k \in 1..Len(videos_to_fetch) :
               Cardinality(SentTo(MasterOf(videos_to_fetch[k]).record_id)) = 1
        /\ \A g \in 1..Len(video_groups) :
               ~InList(video_groups[g].vid, videos_to_fetch)
                   => SentTo(video_groups[g].master.record_id) = {}
        /\ \A g \in 1..Len(video_groups) :
               \A k \in 1..Len(video_groups[g].duplicates) :
                   SentTo(video_groups[g].duplicates[k].record_id) = {}

\* The scenario of three rows A, A, B without force: A complete with a
\* duplicate, B not complete; one update is sent, to B's row.
C6_Witness ==
    /\ Synced /\ ~force
    /\ Len(records) = 3 /\ Len(video_groups) = 2
    /\ video_groups[1].duplicates # <<>>
    /\ videos_to_fetch = <<video_groups[2].vid>>
    /\ Len(sent) = 1
    /\ sent[1].record_id = 3

\* The fields of the single update addressed to the master row of vid.
SentFieldsOf(vid) ==
    sent[CHOOSE u \in 1..Len(sent) : sent[u].record_id = MasterOf(vid).record_id].fields

\* The fetch returned nothing for vid, or its record did not parse.
NoParsedRecord(vid) ==
    \/ batch_results[vid] = <<>>
    \/ ParsedOf(parsed_results, vid) = <<>>

\* C7: for an identifier of videos_to_fetch whose fetch returned null, or
\* whose record failed to parse, the update for the master row holds only
\* the title field, set to the sentinel.
C7_NullFetchTouchesOnlyTitle ==
    Synced =>
        \A k \in 1..Len(videos_to_fetch) :
            NoParsedRecord(videos_to_fetch[k]) =>
                SentFieldsOf(videos_to_fetch[k]) = (FTitle :> <<Sentinel>>)

\* A finished run in which one fetch returned null and the record of
\* another did not parse.
C7_Witness ==
    /\ Synced
    /\ \E k \in 1..Len(videos_to_fetch) : batch_results[videos_to_fetch[k]] = <<>>
    /\ \E k \in 1..Len(videos_to_fetch) :
          /\ batch_results[videos_to_fetch[k]] # <<>>
          /\ ~batch_results[videos_to_fetch[k]][1].text_extra_ok

\* The backend reported the video of key vid as removed: fetch_videos_batch
\* returned the record with the deletion flag for it.
ReportedNotFound(vid) ==
    /\ batch_results[vid] # <<>>
    /\ batch_results[vid][1].is_delete

\* C8: when the video-data backend reports a video of videos_to_fetch as
\* not found, the update for the master row is the minimal one: only the
\* title field, set to the sentinel, and no other field in the payload.
C8_NotFoundTouchesOnlyTitle ==
    Synced =>
        \A k \in 1..Len(videos_to_fetch) :
            ReportedNotFound(videos_to_fetch[k]) =>
                SentFieldsOf(videos_to_fetch[k]) = (FTitle :> <<Sentinel>>)

-----------------------------------------------------------------------------
(* Properties of the grouping key.                                         *)

\* The row with the given record_id is among the duplicates of group g.
IsDuplicateIn(g, rid) ==
    \E k \in 1..Len(video_groups[g].duplicates) :
        video_groups[g].duplicates[k].record_id = rid

\* The row with the given record_id is the master or a duplicate of a group.
IsGrouped(rid) ==
    \E g \in 1..Len(video_groups) :
        video_groups[g].master.record_id = rid \/ IsDuplicateIn(g, rid)

\* The text of the 视频ID field of row i, and that text stripped.
FieldText(i) == records[i].fields.video_id.text
StrippedText(i) == Strip(FieldText(i))

\* Row j is a duplicate in the group in which row i is the master or an
\* earlier duplicate.
GroupedAfter(i, j) ==
    \E g \in 1..Len(video_groups) :
        /\ IsDuplicateIn(g, records[j].record_id)
        /\ \/ video_groups[g].master.record_id = records[i].record_id
           \/ IsDuplicateIn(g, records[i].record_id)

Dropped(i) ==
    /\ ~IsGrouped(records[i].record_id)
    /\ ~InList(StrippedText(i), videos_to_fetch)
    /\ SentTo(records[i].record_id) = {}

-----------------------------------------------------------------------------
(* DouyinAPI._extract_aweme_id followed step by step.                      *)

\* The longest input text, in tokens.
MaxTextLen == 4

\* The tokens of an input text.  A digit token is a maximal run of digits,
\* so two of them are never adjacent.
TextTokens ==
    {" ", "x", IdA, IdB, ShortDigits, OtherDigits, UrlHost, VideoPath, ShortHost,
     SharePath, "aweme_id=", "modal_id="}
Texts ==
    { t \in UNION { [1..n -> TextTokens] : n \in 0..MaxTextLen } :
        \A i \in 1..(Len(t) - 1) : ~(t[i] \in DigitRuns /\ t[i + 1] \in DigitRuns) }

\* What the HEAD request of a short link may give: a failure, the video page
\* of IdB, or a page without an identifier.
HeadOutcomes == {HeadFailed, HeadTo(<<UrlHost, VideoPath, IdB>>), HeadTo(<<UrlHost, "x">>)}

\* cmd_sync is not running.
SyncOff ==
    /\ pc = "off"
    /\ force = FALSE
    /\ table = <<>>
    /\ records = <<>>
    /\ video_groups = <<>>
    /\ videos_to_fetch = <<>>
    /\ skipped = 0
    /\ batch_results = <<>>
    /\ parsed_results = <<>>
    /\ updates = <<>>
    /\ sent = <<>>
    /\ result = NoSummary("none")
    /\ proc = [run |-> "off"]

\* The call _extract_aweme_id(input) about to start; steps lists the
\* requests and searches made so far.
ResolverAt(input, head) ==
    [pc |-> "strip", input |-> input, head |-> head, input_str |-> input,
     url |-> <<>>, steps |-> <<>>, result |-> Unresolved]

InitResolve ==
    /\ SyncOff
    /\ CommandsOff
    /\ \E input \in Texts :
          \E head \in (IF IsShortLink(UrlMatch(Strip(input)))
                       THEN HeadOutcomes ELSE {HeadFailed}) :
             resolver = ResolverAt(input, head)
    /\ fetcher = [pc |-> "off"]
    /\ batch = [pc |-> "off"]

\* input_str = str(input_str).strip()
ResolveStrip ==
    /\ resolver.pc = "strip"
    /\ resolver' = [resolver EXCEPT !.input_str = Strip(resolver.input),
                                    !.pc = "url"]
    /\ UNCHANGED <<syncvars, cmdvars, fetcher, batch>>

\* if "http" in input_str: url_match = re.search(...)
ResolveUrl ==
    /\ resolver.pc = "url"
    /\ LET url == UrlMatch(resolver.input_str)
       IN  resolver' = [resolver EXCEPT !.url = url,
                           !.pc = IF url = <<>> THEN "digits" ELSE "redirect"]
    /\ UNCHANGED <<syncvars, cmdvars, fetcher, batch>>

\* full_url = self._resolve_redirects(url_match.group(1)); input_str = full_url
ResolveRedirect ==
    /\ resolver.pc = "redirect"
    /\ resolver' = [resolver EXCEPT
          !.input_str = ResolveRedirects(resolver.url, resolver.head),
          !.steps = IF IsShortLink(resolver.url) THEN Append(@, "head") ELSE @,
          !.pc = "digits"]
    /\ UNCHANGED <<syncvars, cmdvars, fetcher, batch>>

\* match = re.search(r'\d{19}', input_str)
ResolveDigits ==
    /\ resolver.pc = "digits"
    /\ LET m == FirstIndex(resolver.input_str, Ids19)
       IN  resolver' = [resolver EXCEPT
              !.steps = Append(@, "digits"),
              !.result = IF m # 0 THEN resolver.input_str[m] ELSE @,
              !.pc = IF m # 0 THEN "done" ELSE "legacy"]
    /\ UNCHANGED <<syncvars, cmdvars, fetcher, batch>>

\* The loop over the legacy patterns; return None.
ResolveLegacy ==
    /\ resolver.pc = "legacy"
    /\ resolver' = [resolver EXCEPT !.steps = Append(@, "legacy"),
                                    !.result = SearchLegacy(resolver.input_str),
                                    !.pc = "done"]
    /\ UNCHANGED <<syncvars, cmdvars, fetcher, batch>>

NextResolve ==
    \/ ResolveStrip
    \/ ResolveUrl
    \/ ResolveRedirect
    \/ ResolveDigits
    \/ ResolveLegacy

SpecResolve == InitResolve /\ [][NextResolve]_vars

\* The call has returned.
Resolved == resolver.pc = "done"

\* The step-by-step call returns what the function computes.
ResolverAgrees ==
    Resolved => resolver.result = ExtractAwemeIdVia(resolver.input, resolver.head)

-----------------------------------------------------------------------------
(* Claims about _extract_aweme_id.                                         *)

\* The positions of the 19-digit runs of a text.
RunsOf(text) == { i \in 1..Len(text) : text[i] \in Ids19 }

\* The input of the call embeds a short link or a share link, so a redirect
\* is looked up.
EmbedsShortLink == IsShortLink(UrlMatch(Strip(resolver.input)))

\* C11: for every input that contains exactly one run of 19 consecutive
\* digits, the call returns that run whatever text surrounds it, also when
\* the surrounding text holds a URL that does not contain the run.  (Inputs
\* whose URL is redirected are left out: the statement is refuted without
\* them.)
C11_SingleRunReturned ==
    (Resolved /\ ~EmbedsShortLink /\ Cardinality(RunsOf(resolver.input)) = 1)
        => \E i \in RunsOf(resolver.input) : resolver.result = resolver.input[i]

\* C12: for every input that contains several runs of 19 digits, the call
\* returns the leftmost run of the input.  (Inputs whose URL is redirected
\* are left out.)
C12_LeftmostRunReturned ==
    (Resolved /\ ~EmbedsShortLink /\ Cardinality(RunsOf(resolver.input)) >= 2)
        => resolver.result = resolver.input[FirstIndex(resolver.input, Ids19)]

\* C13: for an input whose embedded URL is a short link or a share link the
\* redirect is looked up before any search for digits, and when the lookup
\* succeeds the identifier returned is the one found in the redirect target,
\* whatever the characters of the short form are.
C13_RedirectBeforeDigits ==
    EmbedsShortLink =>
        /\ (resolver.steps # <<>> => resolver.steps[1] = "head")
        /\ resolver.pc \in {"digits", "legacy", "done"} => resolver.steps # <<>>
        /\ (Resolved /\ resolver.head.ok)
               => resolver.result = SearchId(resolver.head.target)

\* A short link that itself carries the run IdA is redirected to the page of
\* IdB, and IdB is returned.
C13_Witness ==
    /\ Resolved
    /\ EmbedsShortLink
    /\ resolver.head.ok
    /\ RunsOf(resolver.input) # {}
    /\ \A i \in RunsOf(resolver.input) : resolver.input[i] = IdA
    /\ resolver.steps = <<"head", "digits">>
    /\ resolver.result = IdB

\* C14: when the redirect lookup of an embedded short link fails, the call
\* continues the extraction on the original input, so an identifier present
\* anywhere in the original input is still returned.
C14_FailedRedirectKeepsInput ==
    (Resolved /\ EmbedsShortLink /\ ~resolver.head.ok)
        => resolver.result = SearchId(Strip(resolver.input))

\* The prefixes of the legacy patterns that match a text, by their place in
\* the list of patterns.
MatchingPatterns(text) ==
    { k \in 1..Len(LegacyPrefixes) :
        \E i \in 1..(Len(text) - 1) :
            text[i] = LegacyPrefixes[k] /\ text[i + 1] \in DigitRuns }

\* The digits that follow the first occurrence of a prefix in a text.
DigitsAfter(text, prefix) ==
    text[(CHOOSE i \in 1..(Len(text) - 1) :
            /\ text[i] = prefix /\ text[i + 1] \in DigitRuns
            /\ \A j \in 1..(i - 1) :
                  ~(text[j] = prefix /\ text[j + 1] \in DigitRuns)) + 1]

-----------------------------------------------------------------------------
(* DouyinAPI.fetch_video followed step by step.                            *)

\* range(3): the attempts of the retry loop; time.sleep(2): the delay.
MaxAttempts == 3
RetryDelay == 2

\* The five statistics _supplement_statistics merges.
StatKeys == {"play_count", "digg_count", "comment_count", "share_count", "collect_count"}
\* The values a statistic takes in the model; 0 is also what a source that
\* does not report the statistic counts as (.get(key, 0)).
StatValues == {0, 80, 100}
StatMaps == [StatKeys -> StatValues]
\* The statistics of GoodDetail.
GoodStats ==
    [key \in StatKeys |->
        CASE key = "play_count" -> GoodDetail.play_count
          [] key = "digg_count" -> GoodDetail.digg_count
          [] OTHER -> 0]

\* What the App statistics endpoint gives to _supplement_statistics: the
\* first entry of statistics_list, or nothing in any of its three attempts.
NoAppStats == [present |-> FALSE, stats |-> [key \in StatKeys |-> 0]]
AppStats(stats) == [present |-> TRUE, stats |-> stats]

Max(a, b) == IF a >= b THEN a ELSE b

\* The merge with the App value always written.
SupplementStatistics_AppWins(tik_stats, app) ==
    IF ~app.present THEN tik_stats ELSE app.stats

\* _supplement_statistics(aweme_id, tik_data, headers): tik_data's
\* statistics after the call.
SupplementStatistics(tik_stats, app) ==
    IF ~app.present THEN tik_stats
    ELSE [key \in StatKeys |->
            LET final_val == Max(app.stats[key], tik_stats[key])
            IN  IF final_val > 0 THEN final_val ELSE tik_stats[key]]

\* The aweme_detail whose statistics are stats.
DetailWith(stats) ==
    [GoodDetail EXCEPT !.play_count = stats["play_count"],
                       !.digg_count = stats["digg_count"]]

\* What one GET of the primary endpoint may give.  kind is
\*   "timeout", "connerr"  the request raised,
\*   "500"                 a status other than 200 and 404,
\*   "empty"               200 with an empty JSON body,
\*   "detail"              200, code 200, with aweme_detail,
\*   "badcode"             200 with a code other than 200,
\*   "filtered"            200, code 200, filter_detail only,
\*   "bare"                200, code 200, neither,
\*   "notfound"            404 with detail "Not Found",
\*   "404"                 404 with another body;
\* mobile is what the Mobile V3 fallback of a 404 gives: "detail", "none"
\* (no aweme_detail) or "raise".
Outcome(kind, mobile) == [kind |-> kind, mobile |-> mobile]
AttemptOutcomes ==
    { Outcome(k, "-") : k \in {"timeout", "connerr", "500", "empty", "detail",
                                "badcode", "filtered", "bare"} }
      \cup { Outcome(k, m) : k \in {"notfound", "404"},
                             m \in {"detail", "none", "raise"} }

\* The status of the response of an attempt, "-" when the request raised.
StatusOf(o) ==
    CASE o.kind \in {"timeout", "connerr"} -> "-"
      [] o.kind = "500" -> "500"
      [] o.kind \in {"notfound", "404"} -> "404"
      [] OTHER -> "200"

\* The value of data after an attempt, <<>> while it is None or empty:
\* the JSON of a 200, or the JSON of a successful mobile fallback.
DataOf(o) ==
    CASE o.kind = "detail" -> <<[code |-> 200, detail |-> TRUE, filter |-> FALSE]>>
      [] o.kind = "badcode" -> <<[code |-> 400, detail |-> FALSE, filter |-> FALSE]>>
      [] o.kind = "filtered" -> <<[code |-> 200, detail |-> FALSE, filter |-> TRUE]>>
      [] o.kind = "bare" -> <<[code |-> 200, detail |-> FALSE, filter |-> FALSE]>>
      [] o.kind \in {"notfound", "404"} /\ o.mobile = "detail" ->
            <<[code |-> 200, detail |-> TRUE, filter |-> FALSE]>>
      [] OTHER -> <<>>

\* A loop that never returns the "removed" record.
ReturnsNotFound_Never(o) == FALSE

\* The attempt returns the "removed" record at once.
ReturnsNotFound(o) == o.kind = "notfound" /\ o.mobile # "detail"

\* The retry loop that sleeps after every attempt.
AfterAttempt_AlwaysSleeps(attempt) == "sleep"

\* "if attempt < 2: time.sleep(2)", then the next attempt or the end of the
\* loop.
AfterAttempt(attempt) == IF attempt < 2 THEN "sleep" ELSE "check"

\* The call fetch_video(url) about to start, against a backend that holds
\* the statistics web for the video and whose App endpoint gives app.
FetcherAt(url, api_url, web, app) ==
    [pc |-> "extract", url |-> url, api_url |-> api_url, web |-> web, app |-> app,
     aweme_id |-> Unresolved, attempt |-> 0, requests |-> 0,
     trace |-> <<>>, delays |-> <<>>, last |-> Outcome("-", "-"),
     response |-> "none", data |-> <<>>, tik_stats |-> web,
     result |-> <<>>, statistics |-> [key \in StatKeys |-> 0]]

\* The arguments of the calls of the model.
FetchUrls == {ShareUrl(<<IdA>>), <<IdA>>, <<"x">>}

InitFetch ==
    /\ SyncOff
    /\ CommandsOff
    /\ resolver = [pc |-> "off"]
    /\ \E url \in FetchUrls : \E api_url \in BOOLEAN :
          \E app \in {NoAppStats, AppStats([GoodStats EXCEPT !["play_count"] = 80])} :
             fetcher = FetcherAt(url, api_url, GoodStats, app)
    /\ batch = [pc |-> "off"]

\* "if not self.api_url: return None"; aweme_id = self._extract_aweme_id(url);
\* "if not aweme_id: return None".
FetchExtract ==
    /\ fetcher.pc = "extract"
    /\ LET aweme_id == ExtractAwemeId(fetcher.url)
       IN  fetcher' =
             IF ~fetcher.api_url THEN [fetcher EXCEPT !.pc = "done"]
             ELSE [fetcher EXCEPT !.aweme_id = aweme_id,
                      !.pc = IF aweme_id = Unresolved THEN "done" ELSE "request"]
    /\ UNCHANGED <<syncvars, cmdvars, resolver, batch>>

\* One iteration of the retry loop up to its sleep.
FetchAttempt ==
    /\ fetcher.pc = "request"
    /\ fetcher.attempt < MaxAttempts
    /\ \E o \in AttemptOutcomes :
          fetcher' = [fetcher EXCEPT
             !.requests = @ + 1,
             !.trace = Append(@, "get"),
             !.last = o,
             !.response = IF StatusOf(o) = "-" THEN @ ELSE StatusOf(o),
             !.data = DataOf(o),
             !.result = IF ReturnsNotFound(o)
                        THEN <<NotFoundRecord(fetcher.aweme_id)>> ELSE @,
             !.pc = IF DataOf(o) # <<>> THEN "check"
                    ELSE IF ReturnsNotFound(o) THEN "done"
                    ELSE AfterAttempt(fetcher.attempt)]
    /\ UNCHANGED <<syncvars, cmdvars, resolver, batch>>

\* time.sleep(2) and the step of the loop.
FetchSleep ==
    /\ fetcher.pc = "sleep"
    /\ fetcher' = [fetcher EXCEPT !.trace = Append(@, "sleep"),
                                  !.delays = Append(@, RetryDelay),
                                  !.attempt = @ + 1,
                                  !.pc = "request"]
    /\ UNCHANGED <<syncvars, cmdvars, resolver, batch>>

\* The tests after the loop: no response, no data or a code other than 200,
\* no aweme_detail.
FetchCheck ==
    /\ fetcher.pc = "check"
    /\ fetcher' =
          IF fetcher.response = "none" \/ fetcher.data = <<>>
          THEN [fetcher EXCEPT !.pc = "done"]
          ELSE IF fetcher.data[1].code # 200 THEN [fetcher EXCEPT !.pc = "done"]
          ELSE IF ~fetcher.data[1].detail
          THEN [fetcher EXCEPT
                   !.result = IF fetcher.data[1].filter
                              THEN <<FilteredRecord(fetcher.aweme_id)>> ELSE <<>>,
                   !.pc = "done"]
          ELSE [fetcher EXCEPT !.pc = "supplement"]
    /\ UNCHANGED <<syncvars, cmdvars, resolver, batch>>

\* self._supplement_statistics(aweme_id, tik_data, headers)
FetchSupplement ==
    /\ fetcher.pc = "supplement"
    /\ fetcher' = [fetcher EXCEPT
          !.tik_stats = SupplementStatistics(fetcher.tik_stats, fetcher.app),
          !.pc = "convert"]
    /\ UNCHANGED <<syncvars, cmdvars, resolver, batch>>

\* converted_data = {...}; return converted_data
FetchConvert ==
    /\ fetcher.pc = "convert"
    /\ fetcher' = [fetcher EXCEPT
          !.result = <<ConvertedData(fetcher.aweme_id,
                                     DetailWith(fetcher.tik_stats), "")>>,
          !.statistics = fetcher.tik_stats,
          !.pc = "done"]
    /\ UNCHANGED <<syncvars, cmdvars, resolver, batch>>

NextFetch ==
    \/ FetchExtract
    \/ FetchAttempt
    \/ FetchSleep
    \/ FetchCheck
    \/ FetchSupplement
    \/ FetchConvert

SpecFetch == InitFetch /\ [][NextFetch]_vars

\* The end of a call whose request has just brought an aweme_detail, for
\* every pair of statistics of the two sources.
InitStats ==
    /\ SyncOff
    /\ CommandsOff
    /\ resolver = [pc |-> "off"]
    /\ \E web \in StatMaps : \E app \in {NoAppStats} \cup { AppStats(st) : st \in StatMaps } :
          fetcher = [FetcherAt(<<IdA>>, TRUE, web, app) EXCEPT
                        !.pc = "supplement", !.aweme_id = IdA, !.requests = 1,
                        !.trace = <<"get">>, !.last = Outcome("detail", "-"),
                        !.response = "200", !.data = DataOf(Outcome("detail", "-"))]
    /\ batch = [pc |-> "off"]

NextStats ==
    \/ FetchSupplement
    \/ FetchConvert

SpecStats == InitStats /\ [][NextStats]_vars

\* The call has returned.
Fetched == fetcher.pc = "done"

-----------------------------------------------------------------------------
(* Claims about fetch_video.                                               *)

\* C15: in the single-video fetch, for each of the five statistics reported
\* by both the web source and the App source, the value of the returned
\* record is the maximum of the two: a zero never replaces a positive value
\* and a positive value replaces a zero.
C15_MergedIsMaximum ==
    (Fetched /\ fetcher.app.present /\ fetcher.result # <<>>)
        => /\ \A key \in StatKeys :
                 fetcher.statistics[key]
                    = Max(fetcher.web[key], fetcher.app.stats[key])
           /\ fetcher.result[1].play_count
                 = Max(fetcher.web["play_count"], fetcher.app.stats["play_count"])
           /\ fetcher.result[1].digg_count
                 = Max(fetcher.web["digg_count"], fetcher.app.stats["digg_count"])

\* The web source has play 100 and like 0, the App source play 80 and like
\* 80: the record returned has play 100 and like 80.
C15_Witness ==
    /\ Fetched
    /\ fetcher.app.present
    /\ fetcher.web["play_count"] = 100 /\ fetcher.web["digg_count"] = 0
    /\ fetcher.app.stats["play_count"] = 80 /\ fetcher.app.stats["digg_count"] = 80
    /\ fetcher.result # <<>>
    /\ fetcher.result[1].play_count = 100
    /\ fetcher.result[1].digg_count = 80

\* The sleeps and requests of the call alternate, starting with a request.
Alternates(trace) ==
    \A i \in 1..Len(trace) : trace[i] = IF i % 2 = 1 THEN "get" ELSE "sleep"

\* C17: one call sends at most 3 requests to the primary endpoint, stops at
\* the first attempt that yields usable data, waits the same fixed delay
\* between consecutive attempts only (never after the last), and after 3
\* attempts that time out or fail to connect returns no record.
C17_ThreeAttemptsFixedDelay ==
    /\ fetcher.pc # "off" =>
          /\ fetcher.requests <= MaxAttempts
          /\ Alternates(fetcher.trace)
          /\ Len(fetcher.delays) < MaxAttempts
          /\ \A i \in 1..Len(fetcher.delays) : fetcher.delays[i] = RetryDelay
          /\ fetcher.data # <<>> => fetcher.pc \notin {"request", "sleep"}
          /\ fetcher.pc \in {"check", "supplement", "convert", "done"}
                => (fetcher.trace = <<>> \/ fetcher.trace[Len(fetcher.trace)] = "get")
    /\ (Fetched /\ fetcher.requests = MaxAttempts /\ fetcher.response = "none")
          => fetcher.result = <<>>

\* Three attempts that time out or fail to connect, two sleeps between
\* them, and no record returned.
C17_Witness ==
    /\ Fetched
    /\ fetcher.requests = 3
    /\ fetcher.trace = <<"get", "sleep", "get", "sleep", "get">>
    /\ fetcher.delays = <<RetryDelay, RetryDelay>>
    /\ fetcher.response = "none"
    /\ fetcher.last.kind = "connerr"
    /\ fetcher.result = <<>>

\* C18: when the primary endpoint reports the video as not found (404 with
\* detail "Not Found") and the mobile fallback yields no record, the call
\* returns the synthetic success-coded record of that id with the deletion
\* flag set, not a null result.
C18_NotFoundGivesDeletedRecord ==
    (/\ fetcher.pc \notin {"off", "extract", "request"}
     /\ fetcher.last.kind = "notfound"
     /\ fetcher.last.mobile \in {"none", "raise"})
        => /\ Fetched
           /\ Len(fetcher.result) = 1
           /\ fetcher.result[1].is_delete
           /\ fetcher.result[1].aweme_id = fetcher.aweme_id

\* The second request is answered 404 Not Found, the mobile fallback raises,
\* and the record of a removed video is returned.
C18_Witness ==
    /\ Fetched
    /\ fetcher.requests = 2
    /\ fetcher.last = Outcome("notfound", "raise")
    /\ fetcher.result = <<NotFoundRecord(IdA)>>

-----------------------------------------------------------------------------
(* DouyinAPI.fetch_videos_batch followed step by step.                     *)

\* The longest list of requested ids.
MaxIds == 3
\* batch_size, 50 in the source (douyin_api.py:308), scaled down so that a
\* list of MaxIds ids spans two chunks.
BatchSize == 2
\* The chunk of the play-count requests: range(0, len(successful_ids), 2).
StatsChunk == 2

\* The requested ids: every list of at most MaxIds keys, repeats included.
BatchKeys == {<<IdA>>, <<IdB>>, <<IdC>>}
IdLists == UNION { [1..n -> BatchKeys] : n \in 0..MaxIds }
KeysOf(aweme_ids) == { aweme_ids[i] : i \in 1..Len(aweme_ids) }

\* What the backend holds for one id: listed by the batch endpoint (with
\* the App play count absent, 0, below or above the web count of 100), or
\* not listed and then found, reported not found or unreachable by the
\* single-video fallback.
BatchReplies ==
    { Reply("listed", "fail", GoodDetail, NoCount),
      Reply("listed", "fail", GoodDetail, Count(0)),
      Reply("listed", "fail", GoodDetail, Count(80)),
      Reply("listed", "fail", GoodDetail, Count(150)),
      Reply("missing", "ok", GoodDetail, Count(80)),
      Reply("missing", "notfound", GoodDetail, NoCount),
      Reply("missing", "fail", GoodDetail, NoCount) }

\* results, an insertion-ordered dict, as a sequence of entries.
HasKey(results, key) == \E i \in 1..Len(results) : results[i].key = key
Put(results, key, value) ==
    IF HasKey(results, key)
    THEN [i \in 1..Len(results) |->
            IF results[i].key = key THEN [key |-> key, value |-> value]
            ELSE results[i]]
    ELSE Append(results, [key |-> key, value |-> value])
ValueOf(results, key) ==
    results[CHOOSE i \in 1..Len(results) : results[i].key = key].value

\* The dict as a mapping from its keys.
AsMapping(results) ==
    [key \in { results[i].key : i \in 1..Len(results) } |-> ValueOf(results, key)]

\* aweme_ids[i:i+size], for a 1-based i.
Chunk(list, i, size) ==
    SubSeq(list, i, IF i + size - 1 <= Len(list) THEN i + size - 1 ELSE Len(list))

\* The loop over aweme_list: "results[aweme_id] = converted_data" for each
\* detail the batch response lists.
RECURSIVE StoreListed(_, _, _)
StoreListed(results, batch_ids, backend) ==
    IF batch_ids = <<>> THEN results
    ELSE LET key == Head(batch_ids)
         IN  StoreListed(
                 IF backend[key].web = "listed"
                 THEN Put(results, key,
                          <<ConvertedData(key[1], backend[key].detail, "Web API")>>)
                 ELSE results,
                 Tail(batch_ids), backend)

\* The loop over batch_ids: an id not in results is set to None and then to
\* what the single-video fallback returns.
RECURSIVE Fallback(_, _, _)
Fallback(results, batch_ids, backend) ==
    IF batch_ids = <<>> THEN results
    ELSE LET key == Head(batch_ids)
         IN  Fallback(
                 IF HasKey(results, key) THEN results
                 ELSE Put(results, key, FetchVideo(ShareUrl(key), backend[key])),
                 Tail(batch_ids), backend)

\* A fallback loop that fetches every id of the chunk individually.
FallbackFetches_All(results, batch_ids) == batch_ids

\* The ids the fallback loop hands to fetch_video, in the order of the calls:
\* the ids of the chunk that are not keys of results when their turn comes.
RECURSIVE FallbackFetches(_, _)
FallbackFetches(results, batch_ids) ==
    IF batch_ids = <<>> THEN <<>>
    ELSE LET key == Head(batch_ids)
         IN  IF HasKey(results, key)
             THEN FallbackFetches(results, Tail(batch_ids))
             ELSE <<key>> \o FallbackFetches(Put(results, key, <<>>), Tail(batch_ids))

\* The requests of one call in the order they are made: the POST of a chunk
\* with the status of its answer, and the single fetch of one id.
PostEvent(batch_ids, status) == [op |-> "post", ids |-> batch_ids, status |-> status]
FetchEvent(key) == [op |-> "fetch", ids |-> <<key>>, status |-> "ok"]

\* successful_ids = [vid for vid, data in results.items() if data is not None]
RECURSIVE SuccessfulIds(_)
SuccessfulIds(results) ==
    IF results = <<>> THEN <<>>
    ELSE (IF Head(results).value # <<>> THEN <<Head(results).key>> ELSE <<>>)
            \o SuccessfulIds(Tail(results))

\* The loop over stats_list of one play-count response.
RECURSIVE ApplyStats(_, _, _)
ApplyStats(results, batch_ids, backend) ==
    IF batch_ids = <<>> THEN results
    ELSE LET key == Head(batch_ids)
         IN  ApplyStats(
                 Put(results, key,
                     SupplementPlayCount(key, ValueOf(results, key), backend[key].app)),
                 Tail(batch_ids), backend)

\* An exception handler that returns what was gathered before the failure.
FailedBatch_KeepsResults(aweme_ids, results) == AsMapping(results)

\* return {aweme_id: None for aweme_id in aweme_ids}
FailedBatch(aweme_ids, results) == [key \in KeysOf(aweme_ids) |-> <<>>]

\* The call fetch_videos_batch(aweme_ids) about to start.
BatchAt(aweme_ids, backend) ==
    [pc |-> "start", aweme_ids |-> aweme_ids, backend |-> backend, i |-> 1,
     results |-> <<>>, successful_ids |-> <<>>, j |-> 1,
     failed |-> FALSE, returned |-> <<>>, log |-> <<>>]

InitBatch ==
    /\ SyncOff
    /\ CommandsOff
    /\ resolver = [pc |-> "off"]
    /\ fetcher = [pc |-> "off"]
    /\ \E aweme_ids \in IdLists :
          \E backend \in [KeysOf(aweme_ids) -> BatchReplies] :
             batch = BatchAt(aweme_ids, backend)

\* "if not aweme_ids: return {}"
BatchStart ==
    /\ batch.pc = "start"
    /\ batch' = IF batch.aweme_ids = <<>>
                THEN [batch EXCEPT !.returned = AsMapping(<<>>), !.pc = "done"]
                ELSE [batch EXCEPT !.pc = "chunk"]
    /\ UNCHANGED <<syncvars, cmdvars, resolver, fetcher>>

\* One iteration of the loop over the chunks of aweme_ids: the POST, which
\* is answered 200 ("ok"), answered with another status ("error") or raises
\* a timeout or a connection error ("raise"); then the fallback loop.
BatchChunk ==
    /\ batch.pc = "chunk"
    /\ \E post \in {"ok", "error", "raise"} :
          LET batch_ids == Chunk(batch.aweme_ids, batch.i, BatchSize)
              listed == IF post = "ok"
                        THEN StoreListed(batch.results, batch_ids, batch.backend)
                        ELSE batch.results
              results == Fallback(listed, batch_ids, batch.backend)
              fetched == FallbackFetches(listed, batch_ids)
              more == batch.i + BatchSize <= Len(batch.aweme_ids)
          IN  batch' =
                IF post = "raise"
                THEN [batch EXCEPT
                        !.log = Append(@, PostEvent(batch_ids, post)),
                        !.pc = "except"]
                ELSE [batch EXCEPT
                        !.results = results,
                        !.log = Append(@, PostEvent(batch_ids, post))
                                  \o [n \in 1..Len(fetched) |-> FetchEvent(fetched[n])],
                        !.i = @ + BatchSize,
                        !.successful_ids = IF more THEN @ ELSE SuccessfulIds(results),
                        !.pc = IF more THEN "chunk"
                               ELSE IF SuccessfulIds(results) = <<>> THEN "return"
                               ELSE "stats"]
    /\ UNCHANGED <<syncvars, cmdvars, resolver, fetcher>>

\* One iteration of the loop over the chunks of successful_ids: the GET of
\* the play counts, whose failure is caught inside the loop.
BatchStats ==
    /\ batch.pc = "stats"
    /\ \E get \in {"ok", "raise"} :
          LET batch_ids == Chunk(batch.successful_ids, batch.j, StatsChunk)
              more == batch.j + StatsChunk <= Len(batch.successful_ids)
          IN  batch' = [batch EXCEPT
                 !.results = IF get = "ok"
                             THEN ApplyStats(@, batch_ids, batch.backend) ELSE @,
                 !.j = @ + StatsChunk,
                 !.pc = IF more THEN "stats" ELSE "return"]
    /\ UNCHANGED <<syncvars, cmdvars, resolver, fetcher>>

\* return results
BatchReturn ==
    /\ batch.pc = "return"
    /\ batch' = [batch EXCEPT !.returned = AsMapping(batch.results), !.pc = "done"]
    /\ UNCHANGED <<syncvars, cmdvars, resolver, fetcher>>

\* except Exception: return {aweme_id: None for aweme_id in aweme_ids}
BatchExcept ==
    /\ batch.pc = "except"
    /\ batch' = [batch EXCEPT
          !.failed = TRUE,
          !.returned = FailedBatch(batch.aweme_ids, batch.results),
          !.pc = "done"]
    /\ UNCHANGED <<syncvars, cmdvars, resolver, fetcher>>

NextBatch ==
    \/ BatchStart
    \/ BatchChunk
    \/ BatchStats
    \/ BatchReturn
    \/ BatchExcept

SpecBatch == InitBatch /\ [][NextBatch]_vars

\* The call has returned.
BatchDone == batch.pc = "done"

-----------------------------------------------------------------------------
(* Claims about fetch_videos_batch.                                        *)

\* C16: when the web source and the App statistics source both report a
\* play count for the same id, the play count of the returned record is the
\* maximum of the two; it is overwritten by the App value only if that value
\* is greater than zero, so it is never lower than the web play count.
C16_BatchPlayCountIsMaximum ==
    BatchDone =>
        \A key \in DOMAIN batch.returned :
            (/\ batch.returned[key] # <<>>
             /\ batch.backend[key].web = "listed"
             /\ batch.backend[key].app.present)
                => LET web == batch.backend[key].detail.play_count
                       app == batch.backend[key].app.n
                       play_count == batch.returned[key][1].play_count
                   IN  /\ play_count >= web
                       /\ play_count \in {web, Max(web, app)}

\* C19: the call never raises and, for every list of requested ids and every
\* behaviour of the backend, returns a mapping in which each requested id is
\* a key whose value is a metadata record or null.
C19_EveryRequestedIdIsAKey ==
    BatchDone =>
        /\ KeysOf(batch.aweme_ids) \subseteq DOMAIN batch.returned
        /\ \A key \in DOMAIN batch.returned :
              \/ batch.returned[key] = <<>>
              \/ /\ Len(batch.returned[key]) = 1
                 /\ batch.returned[key][1].aweme_id = key[1]

\* Three ids in two chunks; the request of the second chunk raises after the
\* first chunk brought a record, and the mapping returned has the three keys.
C19_Witness ==
    /\ BatchDone
    /\ batch.failed
    /\ batch.aweme_ids = <<<<IdA>>, <<IdB>>, <<IdC>>>>
    /\ batch.i = 1 + BatchSize
    /\ ValueOf(batch.results, <<IdA>>) # <<>>
    /\ DOMAIN batch.returned = BatchKeys

\* C20: a timeout or connection error on the request of one chunk is not
\* fatal to the batch: the ids whose records were obtained in earlier chunks
\* keep those records in the returned mapping.
C20_EarlierChunksKept ==
    BatchDone =>
        \A n \in 1..Len(batch.results) :
            batch.results[n].value # <<>>
                => /\ batch.results[n].key \in DOMAIN batch.returned
                   /\ batch.returned[batch.results[n].key] # <<>>

\* The places of the POSTs in the log, and the place of the POST that
\* follows place p (one past the end of the log when there is none).
PostPlaces == { p \in 1..Len(batch.log) : batch.log[p].op = "post" }
NextPost(p) ==
    IF \E q \in PostPlaces : q > p
    THEN CHOOSE q \in PostPlaces : q > p /\ \A r \in PostPlaces : r > p => q <= r
    ELSE Len(batch.log) + 1
\* The individual fetches of one id between two places of the log.
FetchesOf(key, p, q) ==
    { n \in (p + 1)..(q - 1) :
        batch.log[n].op = "fetch" /\ batch.log[n].ids = <<key>> }
\* No id occurs twice in the requested list, as in the list cmd_sync passes
\* (the keys of video_groups).
NoRepeats(aweme_ids) ==
    \A m, n \in 1..Len(aweme_ids) : aweme_ids[m] = aweme_ids[n] => m = n

-----------------------------------------------------------------------------
(* scripts/yuntu_scraper.py: the brand registry and add_brand, with two    *)
(* invocations of the command that may run at the same time.               *)

\* The fixed prefix of the dashboard URL, which ends in "aadvid=".
YuntuPrefix == "https://yuntu.oceanengine.com/yuntu_brand/...?aadvid="

\* The entry add_brand stores; the URL is the prefix followed by aadvid.
BrandEntry(name, aadvid, industry) ==
    [name |-> name, aadvid |-> aadvid, industry |-> industry,
     yuntu_url |-> <<YuntuPrefix, aadvid>>]

\* DEFAULT_BRANDS
DefaultBrands ==
    [key \in {"lego"} |-> BrandEntry("LEGO", "1731407744628743", "baby")]

\* The registry file: absent, a whole JSON document holding brands, or
\* "partial", a file that is not a JSON document (opened for writing and not
\* yet written, or overwritten in part).
AbsentFile == [state |-> "absent", brands |-> <<>>]
WholeFile(registry) == [state |-> "whole", brands |-> registry]
PartialFile == [state |-> "partial", brands |-> <<>>]

\* load_brands_config() for a file that is absent or whole.
LoadBrandsConfig(file) ==
    IF file.state = "absent" THEN DefaultBrands ELSE file.brands

\* An assignment that replaces the registry by the one new entry.
SetBrand_Alone(registry, brand_key, entry) == [key \in {brand_key} |-> entry]

\* brands[brand_key] = {...}
SetBrand(registry, brand_key, entry) ==
    [key \in DOMAIN registry \cup {brand_key} |->
        IF key = brand_key THEN entry ELSE registry[key]]

\* A save that re-reads the file and merges the dict into what it finds.
WrittenBrands_Merged(file, registry) ==
    IF file.state = "whole"
    THEN [key \in DOMAIN file.brands \cup DOMAIN registry |->
            IF key \in DOMAIN registry THEN registry[key] ELSE file.brands[key]]
    ELSE registry

\* What save_brands_config(brands) writes over the file it finds: the dict
\* it was passed, whatever the file holds.
WrittenBrands(file, registry) == registry

\* The keys and advertiser ids of the adds, the longest run of adds, and the
\* files the first add may find.
BrandKeys == {"lego", "k1", "k2"}
Aadvids == {"a1", "a2"}
MaxAdds == 3
InitialFiles ==
    { AbsentFile, WholeFile(DefaultBrands),
      WholeFile([key \in {"k1"} |-> BrandEntry("n", "a1", "")]) }

\* One invocation of add_brand: not running ("idle"), or at the load, at the
\* open of save_brands_config, at its dump, finished ("done") or ended by an
\* exception ("crashed").
IdleCall ==
    [pc |-> "idle", key |-> "", entry |-> BrandEntry("", "", ""),
     loaded |-> <<>>, brands |-> <<>>, written |-> <<>>, clobbered |-> FALSE,
     error |-> FALSE]
Running(call) == call.pc \in {"load", "open", "dump"}
Other(s) == 3 - s

InitBrands ==
    /\ SyncOff
    /\ resolver = [pc |-> "off"]
    /\ fetcher = [pc |-> "off"]
    /\ batch = [pc |-> "off"]
    /\ query = [pc |-> "off"]
    /\ \E file \in InitialFiles :
          brands = [pc |-> "on", file |-> file,
                    initial |-> LoadBrandsConfig(file),
                    calls |-> [s \in 1..2 |-> IdleCall],
                    started |-> 0, overlapped |-> FALSE,
                    added |-> <<>>, race |-> FALSE]

\* add_brand(brand_key, name, aadvid) is called in an invocation that is not
\* running.
BrandStart ==
    /\ brands.pc = "on"
    /\ brands.started < MaxAdds
    /\ \E s \in 1..2 : \E key \in BrandKeys : \E aadvid \in Aadvids :
          /\ ~Running(brands.calls[s])
          /\ brands' = [brands EXCEPT
                !.calls[s] = [IdleCall EXCEPT
                                !.pc = "load", !.key = key,
                                !.entry = BrandEntry("n", aadvid, "")],
                !.started = @ + 1,
                !.overlapped = @ \/ Running(brands.calls[Other(s)]),
                !.race = FALSE]
    /\ UNCHANGED <<syncvars, apivars, query>>

\* brands = load_brands_config(); brands[brand_key] = {...}.  json.load
\* raises on a file that is not a JSON document.
BrandLoad ==
    /\ brands.pc = "on"
    /\ \E s \in 1..2 :
          LET call == brands.calls[s]
              other == brands.calls[Other(s)]
              loaded == LoadBrandsConfig(brands.file)
          IN  /\ call.pc = "load"
              /\ brands' =
                   IF brands.file.state = "partial"
                   THEN [brands EXCEPT !.calls[s].pc = "crashed",
                                       !.calls[s].error = TRUE]
                   ELSE [brands EXCEPT
                           !.calls[s].pc = "open",
                           !.calls[s].loaded = loaded,
                           !.calls[s].brands = SetBrand(loaded, call.key, call.entry),
                           !.race = @ \/ (other.pc = "open" /\ other.key # call.key)]
    /\ UNCHANGED <<syncvars, apivars, query>>

\* save_brands_config: open(BRANDS_CONFIG_FILE, 'w') truncates the file.
BrandOpen ==
    /\ brands.pc = "on"
    /\ \E s \in 1..2 :
          /\ brands.calls[s].pc = "open"
          /\ brands' = [brands EXCEPT
                !.calls[s].pc = "dump",
                !.calls[s].written = WrittenBrands(brands.file, brands.calls[s].brands),
                !.file = PartialFile]
    /\ UNCHANGED <<syncvars, apivars, query>>

\* save_brands_config: json.dump and the close of the file, then the
\* message of add_brand.  The bytes go to the start of the file; when the
\* other invocation wrote its document after this one opened the file, what
\* is left is this document, or this document followed by the end of a
\* longer one.
BrandDump ==
    /\ brands.pc = "on"
    /\ \E s \in 1..2 :
          LET call == brands.calls[s]
              other == brands.calls[Other(s)]
          IN  /\ call.pc = "dump"
              /\ \E file \in (IF call.clobbered
                              THEN {WholeFile(call.written), PartialFile}
                              ELSE {WholeFile(call.written)}) :
                    brands' = [brands EXCEPT
                       !.file = file,
                       !.calls[s].pc = "done",
                       !.calls[Other(s)].clobbered = @ \/ other.pc = "dump",
                       !.added = Append(@, [key |-> call.key, entry |-> call.entry])]
    /\ UNCHANGED <<syncvars, apivars, query>>

NextBrands ==
    \/ BrandStart
    \/ BrandLoad
    \/ BrandOpen
    \/ BrandDump

SpecBrands == InitBrands /\ [][NextBrands]_vars

-----------------------------------------------------------------------------
(* Claims about the brand registry.                                        *)

\* Both invocations have finished after each loaded the registry before
\* either saved, with different keys.
RaceFinished ==
    /\ brands.race
    /\ \A s \in 1..2 : brands.calls[s].pc = "done"

\* C23: two concurrent invocations of add_brand with different keys can
\* interleave their load and save steps so that, after both finish, the
\* persisted registry holds only one of the two added entries, and neither
\* invocation reports an error: once both have loaded before either saves,
\* the file that results is the registry one of them loaded plus its own
\* entry alone.
C23_LostUpdate ==
    RaceFinished =>
        /\ \A s \in 1..2 : ~brands.calls[s].error
        /\ brands.file.state = "whole" =>
              \E s \in 1..2 :
                 brands.file.brands
                    = SetBrand(brands.calls[s].loaded, brands.calls[s].key,
                               brands.calls[s].entry)

\* Both added keys were new; the file holds the first and not the second.
C23_Witness ==
    /\ RaceFinished
    /\ brands.file.state = "whole"
    /\ brands.calls[1].key = "k1"
    /\ brands.calls[2].key = "k2"
    /\ \A s \in 1..2 : DOMAIN brands.calls[s].loaded = {"lego"}
    /\ DOMAIN brands.file.brands = {"lego", "k1"}

\* The entry of the most recent add of a key.
LastAdded(key) ==
    brands.added[CHOOSE n \in 1..Len(brands.added) :
                    /\ brands.added[n].key = key
                    /\ \A m \in (n + 1)..Len(brands.added) :
                          brands.added[m].key # key].entry
AddedKeys == { brands.added[n].key : n \in 1..Len(brands.added) }

\* C30: after any sequence of non-overlapping add_brand calls the persisted
\* registry maps every key ever added to the entry of the most recent add
\* for that key, whose URL is the fixed prefix followed by that entry's
\* advertiser id; the entries of all other keys, the default entries present
\* when no file existed included, are unchanged.
C30_SequentialAddsKept ==
    (/\ brands.pc = "on"
     /\ ~brands.overlapped
     /\ brands.added # <<>>
     /\ \A s \in 1..2 : ~Running(brands.calls[s]))
        => /\ brands.file.state = "whole"
           /\ DOMAIN brands.file.brands = DOMAIN brands.initial \cup AddedKeys
           /\ \A key \in DOMAIN brands.file.brands :
                 IF key \in AddedKeys
                 THEN /\ brands.file.brands[key] = LastAdded(key)
                      /\ brands.file.brands[key].yuntu_url
                            = <<YuntuPrefix, LastAdded(key).aadvid>>
                 ELSE brands.file.brands[key] = brands.initial[key]

\* No file existed; k1 was added twice and k2 once, one call after the
\* other, and the file holds the default entry, the second k1 and k2.
C30_Witness ==
    /\ brands.pc = "on"
    /\ ~brands.overlapped
    /\ \A s \in 1..2 : ~Running(brands.calls[s])
    /\ brands.initial = DefaultBrands
    /\ Len(brands.added) = 3
    /\ brands.added[1] = [key |-> "k1", entry |-> BrandEntry("n", "a1", "")]
    /\ brands.added[2].key = "k2"
    /\ brands.added[3] = [key |-> "k1", entry |-> BrandEntry("n", "a2", "")]
    /\ DOMAIN brands.file.brands = {"lego", "k1", "k2"}
    /\ brands.file.brands["k1"].aadvid = "a2"
    /\ brands.file.brands["lego"] = DefaultBrands["lego"]

-----------------------------------------------------------------------------
(* scripts/sync.py: cmd_query, and the commands sync and query run with    *)
(* every configuration against backends that may fail.                     *)

\* parse_video_simple(api_response): the printed record, None (<<>>) when
\* the parsing raised (a null 'text_extra').
ParseVideoSimple_NeverFails(video_data) ==
    << [aweme_id |-> video_data.aweme_id, title |-> video_data.desc,
        play_count |-> video_data.play_count,
        digg_count |-> video_data.digg_count,
        is_deleted |-> video_data.is_delete] >>

ParseVideoSimple(video_data) ==
    IF ~video_data.text_extra_ok THEN <<>>
    ELSE << [aweme_id |-> video_data.aweme_id,
             title |-> IF video_data.desc # <<>> THEN video_data.desc
                       ELSE IF video_data.is_delete THEN <<Sentinel>> ELSE <<>>,
             play_count |-> video_data.play_count,
             digg_count |-> video_data.digg_count,
             is_deleted |-> video_data.is_delete] >>

\* One run of cmd_query: video_input is args.video_id or args.url, <<>>
\* when neither was given; reply is what the backend holds for the video.
QueryAt(config, video_input, reply) ==
    [pc |-> "config", config |-> config, video_input |-> video_input,
     reply |-> reply, valid |-> FALSE, calls |-> <<>>, raw_data |-> <<>>,
     parsed_data |-> <<>>, exit_code |-> <<>>]

\* The inputs of query: none, an id, a canonical URL, a legacy link with a
\* short id, text without an id.
QueryInputs ==
    { <<>>, <<IdA>>, UrlA, <<VideoPath, ShortDigits>>, <<"x">> }
QueryReplies ==
    { Reply("missing", "ok", GoodDetail, NoCount),
      Reply("missing", "ok", BrokenDetail, NoCount),
      Reply("missing", "notfound", GoodDetail, NoCount),
      Reply("missing", "filtered", GoodDetail, NoCount),
      Reply("missing", "fail", GoodDetail, NoCount) }

\* The longest table of the runs of SpecCommand, and its rows: no id, IdA
\* with and without data, IdB and a URL of IdA without data.
MaxCommandRows == 3
CommandRows ==
    { Fields(StrV(<<" ">>), FilledFields), Fields(StrV(<<IdA>>), FilledFields),
      Fields(StrV(<<IdA>>), BlankFields), Fields(StrV(<<IdB>>), BlankFields),
      Fields(StrV(UrlA), BlankFields) }
CommandTables ==
    { TableOf(f) : f \in UNION { [1..n -> CommandRows] : n \in 0..MaxCommandRows } }

\* main(): the command is sync or query.
InitCommand ==
    \/ InitSync(CommandTables, BOOLEAN,
                { ProcAt(config, args_ok, "unreliable", FALSE) :
                    config \in Configs, args_ok \in BOOLEAN })
    \/ /\ SyncOff
       /\ resolver = [pc |-> "off"]
       /\ fetcher = [pc |-> "off"]
       /\ batch = [pc |-> "off"]
       /\ brands = [pc |-> "off"]
       /\ \E config \in Configs : \E video_input \in QueryInputs :
             \E reply \in QueryReplies :
                query = QueryAt(config, video_input, reply)

\* validate_config(config, require_feishu=False); sys.exit(1) when invalid.
QueryConfig ==
    /\ query.pc = "config"
    /\ LET is_valid == ValidateConfig(query.config, FALSE)
       IN  query' = IF is_valid
                    THEN [query EXCEPT !.valid = TRUE, !.pc = "input"]
                    ELSE [query EXCEPT !.exit_code = <<1>>, !.pc = "done"]
    /\ UNCHANGED <<syncvars, apivars, brands>>

\* "if not video_input: sys.exit(1)"
QueryInput ==
    /\ query.pc = "input"
    /\ query' = IF query.video_input = <<>>
                THEN [query EXCEPT !.exit_code = <<1>>, !.pc = "done"]
                ELSE [query EXCEPT !.pc = "fetch"]
    /\ UNCHANGED <<syncvars, apivars, brands>>

\* raw_data = api.fetch_video(video_input);
\* "if not raw_data or raw_data.get('code') != 0: sys.exit(1)"
QueryFetch ==
    /\ query.pc = "fetch"
    /\ LET raw_data == FetchVideo(query.video_input, query.reply)
       IN  query' = [query EXCEPT
              !.calls = Append(@, Call("fetch", "ok")),
              !.raw_data = raw_data,
              !.exit_code = IF raw_data = <<>> THEN <<1>> ELSE @,
              !.pc = IF raw_data = <<>> THEN "done" ELSE "parse"]
    /\ UNCHANGED <<syncvars, apivars, brands>>

\* parsed_data = parser.parse_video_simple(raw_data);
\* "if not parsed_data: sys.exit(1)"; otherwise the record is printed and
\* the command returns.
QueryParse ==
    /\ query.pc = "parse"
    /\ LET parsed_data == ParseVideoSimple(query.raw_data[1])
       IN  query' = [query EXCEPT
              !.parsed_data = parsed_data,
              !.exit_code = IF parsed_data = <<>> THEN <<1>> ELSE <<0>>,
              !.pc = "done"]
    /\ UNCHANGED <<syncvars, apivars, brands>>

NextCommand ==
    \/ CheckConfig
    \/ GetToken
    \/ ListRecords
    \/ GroupRecords
    \/ SelectVideos
    \/ FetchBatch
    \/ ParseResults
    \/ UpdateFeishu
    \/ QueryConfig
    \/ QueryInput
    \/ QueryFetch
    \/ QueryParse

SpecCommand == InitCommand /\ [][NextCommand]_vars

-----------------------------------------------------------------------------
(* Claims about the commands.                                              *)

\* The run of sync has ended.
SyncEnded == proc.run # "off" /\ pc = "done"
\* The calls of the run that raised, and whether a call was made.
RaisedCalls == { n \in 1..Len(proc.calls) : proc.calls[n].outcome = "raise" }
Called(op) == \E n \in 1..Len(proc.calls) : proc.calls[n].op = op

\* C21: with its configuration and arguments in place, sync ends with exit
\* code 0 whenever token acquisition, record listing and the update call do
\* not raise, whatever number of identifiers in toFetch failed to fetch, and
\* with exit code 1 when any of those calls raises.
C21_ExitOneOnlyOnBackendException ==
    (SyncEnded /\ proc.config = ValidConfig /\ proc.args_ok) =>
        /\ RaisedCalls = {} => proc.exit_code = <<0>>
        /\ RaisedCalls # {} =>
              /\ proc.exit_code = <<1>>
              /\ \A n \in RaisedCalls : proc.calls[n].op \in {"token", "list", "update"}

\* Every identifier of toFetch failed to fetch, the update was answered with
\* a code other than 0, and the run ended with exit code 0.
C21_Witness ==
    /\ SyncEnded
    /\ proc.exit_code = <<0>>
    /\ result.status = "success"
    /\ result.failed = 2
    /\ result.updated = 0
    /\ proc.calls[Len(proc.calls)] = Call("update", "rejected")

\* C22: when the video-data API key, the spreadsheet app id or the app
\* secret is missing, sync reports the configuration error and exits with a
\* non-zero code before any call to the spreadsheet backend or the video-data
\* API is made, nothing being retried; query requires only the API key.
C22_ConfigErrorBeforeAnyCall ==
    /\ (/\ proc.run # "off"
        /\ pc # "config"
        /\ \/ ~proc.config.douyin_api_key
           \/ ~proc.config.feishu_app_id
           \/ ~proc.config.feishu_app_secret)
          => /\ pc = "done"
             /\ result.status = "config_error"
             /\ proc.exit_code = <<1>>
             /\ proc.calls = <<>>
             /\ sent = <<>>
    /\ query.pc \notin {"off", "config"} =>
          /\ query.valid <=> query.config.douyin_api_key
          /\ ~query.config.douyin_api_key =>
                /\ query.pc = "done"
                /\ query.exit_code = <<1>>
                /\ query.calls = <<>>

\* Only the app secret is missing: sync has ended with exit code 1 and
\* without a call.
C22_Witness ==
    /\ SyncEnded
    /\ proc.config = ConfigOf(TRUE, TRUE, FALSE)
    /\ proc.args_ok
    /\ proc.exit_code = <<1>>
    /\ proc.calls = <<>>

\* C24: query exits with 0 exactly when the fetch produced a record that
\* parses; it exits with 1 when no input is given, when the identifier
\* cannot be resolved, or when the fetch yields no record after its retries.
C24_QueryExitCode ==
    query.pc = "done" =>
        LET given == query.video_input # <<>>
            resolved == ExtractAwemeId(query.video_input) # Unresolved
            record == query.reply.single # "fail"
            parses == query.reply.single = "ok" => query.reply.detail.text_extra_ok
        IN  /\ query.exit_code \in {<<0>>, <<1>>}
            /\ query.exit_code = <<0>>
                  <=> /\ query.config.douyin_api_key
                      /\ given /\ resolved /\ record /\ parses
            /\ query.exit_code = <<0>> <=> query.parsed_data # <<>>

\* The backend returned a detail whose text_extra is null: a record was
\* fetched, it does not parse, and query ended with exit code 1.
C24_Witness ==
    /\ query.pc = "done"
    /\ query.raw_data # <<>>
    /\ query.parsed_data = <<>>
    /\ query.exit_code = <<1>>

\* C27: in every summary of a successful sync, updated + failed is the
\* number of identifiers in toFetch, skipped is unique_videos minus that
\* number, unique_videos is at most total_records, and the number of updates
\* sent is updated + failed.
C27_SummaryCountsAddUp ==
    (SyncEnded /\ result.status = "success") =>
        /\ result.updated + result.failed = Len(videos_to_fetch)
        /\ result.skipped = result.unique_videos - Len(videos_to_fetch)
        /\ result.unique_videos <= result.total_records
        /\ Len(sent) = result.updated + result.failed
        /\ result.updated >= 0 /\ result.failed >= 0 /\ result.skipped >= 0

\* Two groups, one complete and skipped, the other fetched without success.
C27_Witness ==
    /\ SyncEnded
    /\ result = Summary("success", 2, 2, 0, 1, 1)
    /\ Len(sent) = 1

\* The listing succeeded and left nothing to refresh: no records, no row
\* with an identifier, or (force off) only complete groups.
NothingToRefresh ==
    /\ SyncEnded
    /\ \E n \in 1..Len(proc.calls) : proc.calls[n] = Call("list", "ok")
    /\ \/ records = <<>>
       \/ \A i \in 1..Len(records) :
             extract_video_id(records[i].fields.video_id) = <<>>
       \/ /\ ~force
          /\ \A n \in 1..Len(video_groups) :
                ClassifiedComplete(video_groups[n].master.fields)

-----------------------------------------------------------------------------
(* Two runs of sync without --force, one after the other, over the table   *)
(* the first run leaves.                                                   *)

\* The rows of the tables: IdA with and without data, IdB and a URL of IdA
\* without data.
RerunRows ==
    { Fields(StrV(<<IdA>>), FilledFields), Fields(StrV(<<IdA>>), BlankFields),
      Fields(StrV(<<IdB>>), BlankFields), Fields(StrV(UrlA), BlankFields) }
MaxRerunRows == 2
RerunTables ==
    { TableOf(f) : f \in UNION { [1..n -> RerunRows] : n \in 1..MaxRerunRows } }

InitRerun ==
    InitSync(RerunTables, {FALSE}, {ProcAt(ValidConfig, TRUE, "unreliable", TRUE)})

\* The command is run again, without --force, once the first run has ended:
\* what the first run sent is kept, the table is as the backend holds it.
Rerun ==
    /\ pc = "done"
    /\ proc.rerun
    /\ proc.run = "first"
    /\ pc' = "config"
    /\ force' = FALSE
    /\ records' = <<>>
    /\ video_groups' = <<>>
    /\ videos_to_fetch' = <<>>
    /\ skipped' = 0
    /\ batch_results' = <<>>
    /\ parsed_results' = <<>>
    /\ updates' = <<>>
    /\ sent' = <<>>
    /\ result' = NoSummary("none")
    /\ proc' = [proc EXCEPT
          !.run = "second", !.calls = <<>>, !.exit_code = <<>>, !.stored = FALSE,
          !.first = <<[sent |-> sent, stored |-> proc.stored,
                       groups |-> video_groups]>>]
    /\ UNCHANGED <<table, apivars, cmdvars>>

NextRerun ==
    \/ CheckConfig
    \/ GetToken
    \/ ListRecords
    \/ GroupRecords
    \/ SelectVideos
    \/ FetchBatch
    \/ ParseResults
    \/ UpdateFeishu
    \/ Rerun

SpecRerun == InitRerun /\ [][NextRerun]_vars

\* The key under which the first run grouped the master row record_id.
FirstKeyOf(record_id) ==
    LET groups == proc.first[1].groups
    IN  groups[CHOOSE n \in 1..Len(groups) :
                  groups[n].master.record_id = record_id].vid

\* A full-metadata update with a non-empty title that is not the
\* removed-video sentinel and a positive like or play count.
FullUpdate(update) ==
    /\ FVideoId \in DOMAIN update.fields
    /\ update.fields[FTitle] # <<>>
    /\ update.fields[FTitle] # <<Sentinel>>
    /\ (update.fields[FLikes] > 0 \/ update.fields[FPlays] > 0)

\* The second run neither selects the identifier of the row of this update
\* of the first run, as the first run read it or as the update wrote it, nor
\* sends an update for the row.
LeftAlone(update) ==
    /\ ~InList(FirstKeyOf(update.record_id), videos_to_fetch)
    /\ ~InList(Strip(update.fields[FVideoId]), videos_to_fetch)
    /\ \A m \in 1..Len(sent) : sent[m].record_id # update.record_id

\* The updates of the first run, once the second run is under way and the
\* backend had stored them.
StoredFirstUpdates ==
    IF proc.run = "second" /\ proc.first[1].stored
    THEN { proc.first[1].sent[n] : n \in 1..Len(proc.first[1].sent) }
    ELSE {}

RowLeftAlone(update) ==
    /\ \A m \in 1..Len(sent) : sent[m].record_id # update.record_id
    /\ \A n \in 1..Len(video_groups) :
          video_groups[n].master.record_id = update.record_id
             => ~InList(video_groups[n].vid, videos_to_fetch)

=============================================================================
